---- MODULE Spec2Model ----
(***************************************************************************)
(* Recurring-event expansion and ICS interchange of the calendar           *)
(* application (src/src/utils/dateUtils.ts).                                *)
(*                                                                         *)
(* Representation.                                                         *)
(*   - A JavaScript Date is a record [day, sec]: the local calendar day as *)
(*     a day number (days since 1970-01-01) and the second of that day.    *)
(*     The process time zone is taken to have no offset changes (naive     *)
(*     local time), and milliseconds are not represented.  The ISO strings *)
(*     stored in CalendarEvent.start/end/recurrenceEnd are represented by  *)
(*     the Date they parse to (parseISO / toISOString of a valid Date).    *)
(*     The Invalid Date (time value NaN) is the record InvalidDate.        *)
(*   - A JavaScript string is a sequence of one-character strings.         *)
(*   - An optional field (recurrenceEnd?, location?, a field of a          *)
(*     Partial<CalendarEvent>) is a sequence of length 0 (undefined) or 1. *)
(***************************************************************************)
EXTENDS Integers, Sequences, FiniteSets, TLC

VARIABLES pc, call, frame, ret, localEvents, cloudRows, awaiting,
          clock, sentStore, checks, delivered

vars == <<pc, call, frame, ret, localEvents, cloudRows, awaiting,
          clock, sentStore, checks, delivered>>

\* The variables of a call of a pure function; those of the event store
\* (the list held by useEvents, the rows of the events table, the handlers
\* suspended at their await); those of the notification service (the time
\* of the next check, the keys kept in localStorage, the checks suspended
\* at an email send, the reminders delivered so far).
callVars == <<pc, call, frame, ret>>
storeVars == <<localEvents, cloudRows, awaiting>>
notifyVars == <<clock, sentStore, checks, delivered>>
appVars == <<localEvents, cloudRows, awaiting, clock, sentStore, checks, delivered>>

StoreIdle == localEvents = <<>> /\ cloudRows = {} /\ awaiting = <<>>
NotifyIdle == clock = 0 /\ sentStore = <<>> /\ checks = <<>> /\ delivered = <<>>

\* No application is running while a pure function is applied.
AppIdle == StoreIdle /\ NotifyIdle

None == <<>>
Some(x) == <<x>>

(***************************************************************************)
(* Calendar arithmetic of the JavaScript Date object (proleptic Gregorian).*)
(***************************************************************************)
DaysFromCivil(y, m, d) ==
  LET yy  == IF m <= 2 THEN y - 1 ELSE y
      era == yy \div 400
      yoe == yy - era * 400
      mp  == IF m > 2 THEN m - 3 ELSE m + 9
      doy == (153 * mp + 2) \div 5 + d - 1
      doe == yoe * 365 + yoe \div 4 - yoe \div 100 + doy
  IN  era * 146097 + doe - 719468

CivilFromDays(z) ==
  LET zz  == z + 719468
      era == zz \div 146097
      doe == zz - era * 146097
      yoe == (doe - doe \div 1460 + doe \div 36524 - doe \div 146096) \div 365
      doy == doe - (365 * yoe + yoe \div 4 - yoe \div 100)
      mp  == (5 * doy + 2) \div 153
      d   == doy - (153 * mp + 2) \div 5 + 1
      m   == IF mp < 10 THEN mp + 3 ELSE mp - 9
  IN  [y |-> (yoe + era * 400) + (IF m <= 2 THEN 1 ELSE 0), m |-> m, d |-> d]

\* Number of days of month m (1..12) of year y.
DaysInMonth(y, m) ==
  IF m = 12 THEN DaysFromCivil(y + 1, 1, 1) - DaysFromCivil(y, 12, 1)
            ELSE DaysFromCivil(y, m + 1, 1) - DaysFromCivil(y, m, 1)

SecondsPerDay == 24 * 60 * 60

MkDate(day, sec) == [day |-> day, sec |-> sec]

\* new Date(NaN): toISOString() throws RangeError on it.
InvalidDate == [day |-> 0, sec |-> 0 - 1]

IsValidDate(d) == d.sec >= 0

\* new Date(year, monthIndex, day, hours, minutes, seconds) in local time.
\* Each argument is an optional number: None stands for NaN.
NewDate(year, monthIndex, day, hours, minutes, seconds) ==
  IF None \in {year, monthIndex, day, hours, minutes, seconds}
  THEN InvalidDate
  ELSE LET y0   == year[1]
           y    == IF y0 >= 0 /\ y0 <= 99 THEN 1900 + y0 ELSE y0
           ym   == y * 12 + monthIndex[1]
           base == DaysFromCivil(ym \div 12, (ym % 12) + 1, 1) + day[1] - 1
           secs == hours[1] * 3600 + minutes[1] * 60 + seconds[1]
       IN  MkDate(base + secs \div SecondsPerDay, secs % SecondsPerDay)

(***************************************************************************)
(* date-fns functions used by the expander.                                *)
(***************************************************************************)
isBefore(a, b) == a.day < b.day \/ (a.day = b.day /\ a.sec < b.sec)

isAfter(a, b) == isBefore(b, a)

isSameDay(a, b) == a.day = b.day

\* isWithinInterval(date, {start, end}); callers pass start <= end.
isWithinInterval(d, start, end) == ~isBefore(d, start) /\ ~isAfter(d, end)

startOfDay(d) == MkDate(d.day, 0)

\* 23:59:59.999, to the second.
endOfDay(d) == MkDate(d.day, SecondsPerDay - 1)

\* differenceInMinutes(later, earlier): the difference truncated toward zero.
differenceInMinutes(a, b) ==
  LET diff == (a.day - b.day) * SecondsPerDay + (a.sec - b.sec)
  IN  IF diff >= 0 THEN diff \div 60 ELSE 0 - ((0 - diff) \div 60)

getHours(d) == d.sec \div 3600

getMinutes(d) == (d.sec % 3600) \div 60

getSeconds(d) == d.sec % 60

setHours(d, h) == MkDate(d.day, h * 3600 + (d.sec % 3600))

setMinutes(d, m) == MkDate(d.day, (d.sec \div 3600) * 3600 + m * 60 + (d.sec % 60))

addDays(d, n) == MkDate(d.day + n, d.sec)

addWeeks(d, n) == addDays(d, 7 * n)

\* addMonths keeps the day of month unless the target month is shorter, in
\* which case it lands on the last day of the target month.
addMonths(d, n) ==
  LET c   == CivilFromDays(d.day)
      idx == c.y * 12 + (c.m - 1) + n
      ty  == idx \div 12
      tm  == (idx % 12) + 1
      dim == DaysInMonth(ty, tm)
      dd  == IF c.d >= dim THEN dim ELSE c.d
  IN  MkDate(DaysFromCivil(ty, tm, dd), d.sec)

addYears(d, n) == addMonths(d, 12 * n)

(***************************************************************************)
(* Strings.                                                                *)
(***************************************************************************)
DigitChars == <<"0", "1", "2", "3", "4", "5", "6", "7", "8", "9">>

IsDigit(c) == \E i \in 1..10 : DigitChars[i] = c

DigitValue(c) == (CHOOSE i \in 1..10 : DigitChars[i] = c) - 1

\* The decimal digits of n >= 0, left-padded with zeros to at least w digits
\* (the yyyy, MM, dd, HH, mm, ss tokens of date-fns format).
RECURSIVE Pad(_, _)
Pad(n, w) ==
  IF n < 10 /\ w <= 1
  THEN <<DigitChars[n + 1]>>
  ELSE Pad(n \div 10, w - 1) \o <<DigitChars[(n % 10) + 1]>>

\* s.slice(from, to) with 0 <= from <= to (JavaScript indices).
Slice(s, from, to) ==
  LET hi == IF to > Len(s) THEN Len(s) ELSE to
  IN  IF from >= hi THEN <<>> ELSE SubSeq(s, from + 1, hi)

\* s.slice(from)
SliceFrom(s, from) == Slice(s, from, Len(s))

startsWith(s, p) == Len(s) >= Len(p) /\ SubSeq(s, 1, Len(p)) = p

\* Index (1-based) of the first occurrence of p in s at or after i, 0 if none.
RECURSIVE IndexOfFrom(_, _, _)
IndexOfFrom(s, p, i) ==
  IF i + Len(p) - 1 > Len(s) THEN 0
  ELSE IF SubSeq(s, i, i + Len(p) - 1) = p THEN i
  ELSE IndexOfFrom(s, p, i + 1)

includes(s, p) == IndexOfFrom(s, p, 1) # 0

\* s.replace(/p/g, r) for a literal, non-empty p: every non-overlapping
\* occurrence, scanning left to right.
RECURSIVE ReplaceAll(_, _, _)
ReplaceAll(s, p, r) ==
  IF Len(s) < Len(p) THEN s
  ELSE IF SubSeq(s, 1, Len(p)) = p
       THEN r \o ReplaceAll(SubSeq(s, Len(p) + 1, Len(s)), p, r)
       ELSE <<s[1]>> \o ReplaceAll(Tail(s), p, r)

\* s.replace(p, r) for a literal string p: the first occurrence only.
ReplaceFirst(s, p, r) ==
  LET i == IndexOfFrom(s, p, 1)
  IN  IF i = 0 THEN s
      ELSE SubSeq(s, 1, i - 1) \o r \o SubSeq(s, i + Len(p), Len(s))

\* s.split(c) for a one-character separator c.
RECURSIVE SplitChar(_, _)
SplitChar(s, c) ==
  LET i == IndexOfFrom(s, <<c>>, 1)
  IN  IF i = 0 THEN <<s>>
      ELSE <<SubSeq(s, 1, i - 1)>> \o SplitChar(SubSeq(s, i + 1, Len(s)), c)

\* parseInt(s) for s without leading white space or sign: the value of the
\* longest prefix of decimal digits, None (NaN) when there is none.
RECURSIVE DigitsValue(_, _)
DigitsValue(s, acc) ==
  IF s = <<>> \/ ~IsDigit(s[1]) THEN acc
  ELSE DigitsValue(Tail(s), acc * 10 + DigitValue(s[1]))

parseInt(s) ==
  IF s = <<>> \/ ~IsDigit(s[1]) THEN None ELSE Some(DigitsValue(s, 0))

formatYM(d) ==
  LET c == CivilFromDays(d.day)
  IN  Pad(c.y, 4) \o <<"-">> \o Pad(c.m, 2)

\* format(date, 'yyyy-MM-dd')
formatYMD(d) ==
  LET c == CivilFromDays(d.day)
  IN  Pad(c.y, 4) \o <<"-">> \o Pad(c.m, 2) \o <<"-">> \o Pad(c.d, 2)

(***************************************************************************)
(* CalendarEvent records.  start, end: Dates; recurrenceEnd, location:     *)
(* optional; id, title, description, calendarId: strings.                  *)
(***************************************************************************)
KnownRecurrences == {"daily", "weekly", "monthly", "yearly"}

(***************************************************************************)
(* expandRecurringEvent (dateUtils.ts, 73-132).                            *)
(***************************************************************************)
maxIterations == 365

\* The test of the recurrence 'none' branch (80-81).
NoneCondition(eventStart, rangeStart, rangeEnd) ==
  \/ isWithinInterval(eventStart, rangeStart, rangeEnd)
  \/ isSameDay(eventStart, rangeStart)
  \/ isSameDay(eventStart, rangeEnd)

\* event.recurrenceEnd ? parseISO(event.recurrenceEnd) : addYears(rangeEnd, 1)
RecurrenceEndOf(event, rangeEnd) ==
  IF event.recurrenceEnd # None THEN event.recurrenceEnd[1] ELSE addYears(rangeEnd, 1)

LoopConditionOffByOne(currentStart, rangeEnd, recurrenceEnd, iteration) ==
  /\ isBefore(currentStart, rangeEnd)
  /\ isBefore(currentStart, recurrenceEnd)
  /\ iteration <= maxIterations

\* The while condition (97).
LoopCondition(currentStart, rangeEnd, recurrenceEnd, iteration) ==
  /\ isBefore(currentStart, rangeEnd)
  /\ isBefore(currentStart, recurrenceEnd)
  /\ iteration < maxIterations

InstanceConditionAlways(currentStart, rangeStart, rangeEnd) == TRUE

\* The test that decides whether the current step emits an instance (98-99).
InstanceCondition(currentStart, rangeStart, rangeEnd) ==
  \/ isAfter(currentStart, rangeStart)
  \/ isSameDay(currentStart, rangeStart)
  \/ isWithinInterval(currentStart, rangeStart, rangeEnd)

\* instanceEnd (100-101); duration is in minutes.
InstanceEnd(currentStart, originalEnd, duration) ==
  addDays(setMinutes(setHours(currentStart, getHours(originalEnd)),
                     getMinutes(originalEnd)),
          duration \div (24 * 60))

InstanceWithoutRecurrenceEnd(event, currentStart, instanceEnd) ==
  [event EXCEPT !.id    = event.id \o <<"_">> \o formatYMD(currentStart),
                !.start = currentStart,
                !.end   = instanceEnd,
                !.recurrenceEnd = None]

\* The pushed object (103-108): the event with id, start and end replaced.
Instance(event, currentStart, instanceEnd) ==
  [event EXCEPT !.id    = event.id \o <<"_">> \o formatYMD(currentStart),
                !.start = currentStart,
                !.end   = instanceEnd]

\* The switch and the iteration++ that follows it (112-128).
Advance(recurrence, currentStart, iteration) ==
  CASE recurrence = "daily"   ->
         [currentStart |-> addDays(currentStart, 1), iteration |-> iteration + 1]
    [] recurrence = "weekly"  ->
         [currentStart |-> addWeeks(currentStart, 1), iteration |-> iteration + 1]
    [] recurrence = "monthly" ->
         [currentStart |-> addMonths(currentStart, 1), iteration |-> iteration + 1]
    [] recurrence = "yearly"  ->
         [currentStart |-> addYears(currentStart, 1), iteration |-> iteration + 1]
    [] OTHER ->
         [currentStart |-> currentStart, iteration |-> maxIterations + 1]

\* The locals after lines 87-95.  bodyRuns counts the executions of the
\* loop body; it is not a variable of the code.
LoopEntry(event, rangeEnd) ==
  [originalEnd   |-> event.end,
   duration      |-> differenceInMinutes(event.end, event.start),
   recurrenceEnd |-> RecurrenceEndOf(event, rangeEnd),
   currentStart  |-> event.start,
   iteration     |-> 0,
   instances     |-> <<>>,
   bodyRuns      |-> 0]

\* The while condition on the locals f.
LoopRuns(f, rangeEnd) ==
  LoopCondition(f.currentStart, rangeEnd, f.recurrenceEnd, f.iteration)

\* One execution of the loop body (98-128) on the locals f.
LoopBody(event, rangeStart, rangeEnd, f) ==
  LET next == Advance(event.recurrence, f.currentStart, f.iteration)
  IN  [f EXCEPT
         !.instances =
            IF InstanceCondition(f.currentStart, rangeStart, rangeEnd)
            THEN Append(@, Instance(event, f.currentStart,
                                    InstanceEnd(f.currentStart, f.originalEnd,
                                                f.duration)))
            ELSE @,
         !.currentStart = next.currentStart,
         !.iteration = next.iteration,
         !.bodyRuns = @ + 1]

\* The while loop (97-129) run to its exit.
RECURSIVE ExpandLoop(_, _, _, _)
ExpandLoop(event, rangeStart, rangeEnd, f) ==
  IF LoopRuns(f, rangeEnd)
  THEN ExpandLoop(event, rangeStart, rangeEnd,
                  LoopBody(event, rangeStart, rangeEnd, f))
  ELSE f

\* The list returned by the recurrence 'none' branch (78-85).
ExpandNone(event, rangeStart, rangeEnd) ==
  IF NoneCondition(event.start, rangeStart, rangeEnd) THEN <<event>> ELSE <<>>

\* The function as its callers use it: the returned list.
expandRecurringEvent(event, rangeStart, rangeEnd) ==
  IF event.recurrence = "none"
  THEN ExpandNone(event, rangeStart, rangeEnd)
  ELSE ExpandLoop(event, rangeStart, rangeEnd,
                  LoopEntry(event, rangeEnd)).instances

(***************************************************************************)
(* getEventsForDay (dateUtils.ts, 135-162).                                *)
(***************************************************************************)
RECURSIVE FlatMapExpand(_, _, _)
FlatMapExpand(events, rangeStart, rangeEnd) ==
  IF events = <<>> THEN <<>>
  ELSE expandRecurringEvent(Head(events), rangeStart, rangeEnd)
       \o FlatMapExpand(Tail(events), rangeStart, rangeEnd)

IsActiveVisibleIgnoringDeleted(e, visibleCalendarIds) ==
  e.calendarId \in visibleCalendarIds

\* The filter applied before expansion (144, 176).
IsActiveVisible(e, visibleCalendarIds) ==
  ~e.isDeleted /\ e.calendarId \in visibleCalendarIds

\* The overlap filter applied to the expanded events (147-156).
OverlapsDay(event, date) ==
  \/ isSameDay(event.start, date)
  \/ isSameDay(event.end, date)
  \/ (isBefore(event.start, endOfDay(date)) /\ isAfter(event.end, startOfDay(date)))

\* The sign of the comparator of the sort (157-161).
DayOrder(a, b) ==
  IF a.allDay /\ ~b.allDay THEN 0 - 1
  ELSE IF ~a.allDay /\ b.allDay THEN 1
  ELSE IF isBefore(a.start, b.start) THEN 0 - 1
  ELSE IF isAfter(a.start, b.start) THEN 1
  ELSE 0

\* Array.prototype.sort with that comparator: a stable sort.
RECURSIVE InsertByDayOrder(_, _)
InsertByDayOrder(sorted, x) ==
  IF sorted = <<>> THEN <<x>>
  ELSE IF DayOrder(Head(sorted), x) <= 0
       THEN <<Head(sorted)>> \o InsertByDayOrder(Tail(sorted), x)
       ELSE <<x>> \o sorted

RECURSIVE SortByDayOrder(_)
SortByDayOrder(events) ==
  IF events = <<>> THEN <<>>
  ELSE InsertByDayOrder(SortByDayOrder(SubSeq(events, 1, Len(events) - 1)),
                        events[Len(events)])

getEventsForDay(events, date, visibleCalendarIds) ==
  LET visible(e) == IsActiveVisible(e, visibleCalendarIds)
      expandedEvents == FlatMapExpand(SelectSeq(events, visible),
                                      startOfDay(date), endOfDay(date))
      overlaps(e) == OverlapsDay(e, date)
  IN  SortByDayOrder(SelectSeq(expandedEvents, overlaps))

\* The sign of the comparator of the sort of a group (185): the difference
\* of the two start times.
StartOrder(a, b) ==
  IF isBefore(a.start, b.start) THEN 0 - 1
  ELSE IF isAfter(a.start, b.start) THEN 1
  ELSE 0

RECURSIVE InsertByStartOrder(_, _)
InsertByStartOrder(sorted, x) ==
  IF sorted = <<>> THEN <<x>>
  ELSE IF StartOrder(Head(sorted), x) <= 0
       THEN <<Head(sorted)>> \o InsertByStartOrder(Tail(sorted), x)
       ELSE <<x>> \o sorted

RECURSIVE SortByStartOrder(_)
SortByStartOrder(events) ==
  IF events = <<>> THEN <<>>
  ELSE InsertByStartOrder(SortByStartOrder(SubSeq(events, 1, Len(events) - 1)),
                          events[Len(events)])

\* The body of the grouping loop (180-193) from day i on: the groups of the
\* days that have events (the label of a group is not modelled).
RECURSIVE GroupsFrom(_, _, _, _)
GroupsFrom(expandedEvents, startDate, days, i) ==
  IF i >= days THEN <<>>
  ELSE LET currentDate == addDays(startDate, i)
           onDay(event) == isSameDay(event.start, currentDate)
           dayEvents == SortByStartOrder(SelectSeq(expandedEvents, onDay))
       IN  (IF Len(dayEvents) > 0
            THEN <<[date |-> currentDate, events |-> dayEvents]>>
            ELSE <<>>)
           \o GroupsFrom(expandedEvents, startDate, days, i + 1)

\* groupEventsByDate (165-197).
groupEventsByDate(events, startDate, days, visibleCalendarIds) ==
  LET endDate == addDays(startDate, days)
      visible(e) == IsActiveVisible(e, visibleCalendarIds)
      expandedEvents == FlatMapExpand(SelectSeq(events, visible),
                                      startDate, endDate)
  IN  GroupsFrom(expandedEvents, startDate, days, 0)

(***************************************************************************)
(* Inputs of the expander and of getEventsForDay.                          *)
(***************************************************************************)
MaxDurationDays == 1
MaxRangeShift == 1
MaxDayEvents == 2

\* t + n seconds.
AddSeconds(t, n) ==
  MkDate(t.day + (t.sec + n) \div SecondsPerDay, (t.sec + n) % SecondsPerDay)

\* Seconds from a to b.
SecondsBetween(a, b) == (b.day - a.day) * SecondsPerDay + (b.sec - a.sec)

Seqs(S, n) == UNION {[1..k -> S] : k \in 0..n}

IdE1 == <<"e", "1">>
IdE2 == <<"e", "2">>
CalC1 == <<"c", "1">>
CalC2 == <<"c", "2">>

StartDays == {DaysFromCivil(2024, 3, 10), DaysFromCivil(2024, 1, 31)}

StartSecs == {0, 9 * 3600, 23 * 3600}

\* 0, 1 h 30 min, 2 h, and whole days with and without 2 h more.
Durations ==
  {0, 5400, 7200}
    \cup {k * SecondsPerDay + x : k \in 1..MaxDurationDays, x \in {0, 7200}}

Recurrences == {"none", "hourly"} \cup KnownRecurrences

\* No recurrenceEnd, one three days after the start, one 10000 years after it.
RecurrenceEndKinds == {"unset", "soon", "far"}

RecurrenceEndFor(kind, start) ==
  CASE kind = "unset" -> None
    [] kind = "soon"  -> Some(addDays(start, 3))
    [] kind = "far"   -> Some(addYears(start, 10000))

BaseEvent ==
  [id |-> IdE1, title |-> <<"a">>, description |-> <<>>,
   start |-> MkDate(DaysFromCivil(2024, 3, 10), 9 * 3600),
   end |-> MkDate(DaysFromCivil(2024, 3, 10), 10 * 3600),
   allDay |-> FALSE, calendarId |-> CalC1, type |-> "event",
   recurrence |-> "none", recurrenceEnd |-> None, location |-> None,
   isDeleted |-> FALSE]

ExpandEvents ==
  {[BaseEvent EXCEPT !.start = MkDate(d, s),
                     !.end = AddSeconds(MkDate(d, s), dur),
                     !.recurrence = r,
                     !.recurrenceEnd = RecurrenceEndFor(re, MkDate(d, s)),
                     !.isDeleted = del] :
     d \in StartDays, s \in StartSecs, dur \in Durations, r \in Recurrences,
     re \in RecurrenceEndKinds, del \in BOOLEAN}

DayRange(d) == [rangeStart |-> startOfDay(d), rangeEnd |-> endOfDay(d)]

\* The day ranges around the event's first day, the week that starts on
\* it, ending at the start and at the end of the seventh day, and two days
\* from noon to noon.
NearRanges(start) ==
  {DayRange(addDays(start, k)) : k \in (0 - 1)..MaxRangeShift}
    \cup {[rangeStart |-> startOfDay(start),
           rangeEnd |-> addDays(startOfDay(start), 6)],
          [rangeStart |-> startOfDay(start),
           rangeEnd |-> endOfDay(addDays(start, 6))],
          [rangeStart |-> setHours(addDays(startOfDay(start), 1), 12),
           rangeEnd |-> setHours(addDays(startOfDay(start), 3), 12)]}

\* A day more than maxIterations days after the start, and a day 1000 years
\* after it.
FarRanges(start) ==
  {DayRange(addDays(start, 400)), DayRange(addYears(start, 1000))}

\* The nine weeks that start on the event's first day.
QuarterRange(start) ==
  [rangeStart |-> startOfDay(start), rangeEnd |-> endOfDay(addDays(start, 62))]

\* The events queried over the far ranges.
IsFarEvent(e) ==
  /\ e.start = BaseEvent.start
  /\ e.end = AddSeconds(e.start, 7200)
  /\ ~e.isDeleted

ExpandCalls ==
  UNION {{[op |-> "expand", event |-> e, rangeStart |-> r.rangeStart,
           rangeEnd |-> r.rangeEnd] :
            r \in NearRanges(e.start)
                    \cup (IF IsFarEvent(e) THEN FarRanges(e.start) ELSE {})
                    \cup (IF e.recurrence = "monthly"
                          THEN {QuarterRange(e.start)} ELSE {})} :
         e \in ExpandEvents}

DayEventPool ==
  {[BaseEvent EXCEPT !.start = MkDate(DaysFromCivil(2024, 3, 10), s),
                     !.end = AddSeconds(MkDate(DaysFromCivil(2024, 3, 10), s), 7200),
                     !.recurrence = r,
                     !.isDeleted = f[1],
                     !.calendarId = f[2]] :
     s \in {9 * 3600, 23 * 3600}, r \in {"none", "daily"},
     f \in {<<FALSE, CalC1>>, <<TRUE, CalC1>>, <<FALSE, CalC2>>}}

DayCalls ==
  {[op |-> "day", events |-> es,
    date |-> MkDate(DaysFromCivil(2024, 3, 10) + k, 12 * 3600),
    visibleCalendarIds |-> v] :
     es \in Seqs(DayEventPool, MaxDayEvents), k \in (0 - 1)..1,
     v \in {{}, {CalC1}, {CalC1, CalC2}}}

MaxAgendaEvents == 2
MaxAgendaDays == 2

\* All-day events (00:00 to 23:59 of a day, as the event form writes them)
\* and timed events of the same days, one of them at midnight.
AgendaEventPool ==
  {[BaseEvent EXCEPT !.id = x[1], !.allDay = x[2],
                     !.start = MkDate(DaysFromCivil(2024, 3, 10), x[3]),
                     !.end = MkDate(DaysFromCivil(2024, 3, 10), x[4]),
                     !.recurrence = x[5]] :
     x \in {<<IdE1, TRUE, 0, 23 * 3600 + 59 * 60, "none">>,
            <<IdE1, TRUE, 0, 23 * 3600 + 59 * 60, "daily">>,
            <<IdE2, FALSE, 0, 3600, "none">>,
            <<IdE2, FALSE, 0, 3600, "daily">>,
            <<IdE2, FALSE, 9 * 3600, 10 * 3600, "none">>}}

AgendaDayCalls ==
  {[op |-> "day", events |-> es,
    date |-> MkDate(DaysFromCivil(2024, 3, 10) + k, 12 * 3600),
    visibleCalendarIds |-> {CalC1}] :
     es \in Seqs(AgendaEventPool, MaxAgendaEvents), k \in 0..1}

AgendaCalls ==
  {[op |-> "agenda", events |-> es,
    startDate |-> MkDate(DaysFromCivil(2024, 3, 10) + k, 0),
    days |-> n, visibleCalendarIds |-> {CalC1}] :
     es \in Seqs(AgendaEventPool, MaxAgendaEvents), k \in (0 - 1)..0,
     n \in 1..MaxAgendaDays}

(***************************************************************************)
(* Specification of the expander: a call is drawn, then applied.           *)
(***************************************************************************)
Idle == [op |-> "idle"]

InitExpand ==
  /\ pc = "call"
  /\ call \in ExpandCalls \cup DayCalls \cup AgendaDayCalls \cup AgendaCalls
  /\ frame = Idle
  /\ ret = Idle
  /\ AppIdle

\* Lines 78-95: the recurrence 'none' branch returns; otherwise the locals
\* of the loop are set.
ExpandEnter ==
  /\ pc = "call"
  /\ call.op = "expand"
  /\ IF call.event.recurrence = "none"
     THEN /\ ret' = [instances |-> ExpandNone(call.event, call.rangeStart,
                                              call.rangeEnd),
                     bodyRuns |-> 0]
          /\ pc' = "done"
          /\ UNCHANGED frame
     ELSE /\ frame' = LoopEntry(call.event, call.rangeEnd)
          /\ pc' = "loop"
          /\ UNCHANGED ret
  /\ UNCHANGED call
  /\ UNCHANGED appVars

\* One iteration of the while loop (97-129).
ExpandIterate ==
  /\ pc = "loop"
  /\ LoopRuns(frame, call.rangeEnd)
  /\ frame' = LoopBody(call.event, call.rangeStart, call.rangeEnd, frame)
  /\ UNCHANGED <<pc, call, ret>>
  /\ UNCHANGED appVars

\* The loop exit and the return (131).
ExpandReturn ==
  /\ pc = "loop"
  /\ ~LoopRuns(frame, call.rangeEnd)
  /\ ret' = [instances |-> frame.instances, bodyRuns |-> frame.bodyRuns]
  /\ pc' = "done"
  /\ UNCHANGED <<call, frame>>
  /\ UNCHANGED appVars

ApplyGetEventsForDay ==
  /\ pc = "call"
  /\ call.op = "day"
  /\ ret' = [events |-> getEventsForDay(call.events, call.date,
                                        call.visibleCalendarIds)]
  /\ pc' = "done"
  /\ UNCHANGED <<call, frame>>
  /\ UNCHANGED appVars

ApplyGroupEventsByDate ==
  /\ pc = "call"
  /\ call.op = "agenda"
  /\ ret' = [groups |-> groupEventsByDate(call.events, call.startDate,
                                           call.days, call.visibleCalendarIds)]
  /\ pc' = "done"
  /\ UNCHANGED <<call, frame>>
  /\ UNCHANGED appVars

NextExpand ==
  \/ ExpandEnter \/ ExpandIterate \/ ExpandReturn
  \/ ApplyGetEventsForDay \/ ApplyGroupEventsByDate

SpecExpand == InitExpand /\ [][NextExpand]_vars

ExpandDone == pc = "done" /\ call.op = "expand"

DayDone == pc = "done" /\ call.op = "day"

AgendaDone == pc = "done" /\ call.op = "agenda"

(***************************************************************************)
(* Properties of the expander.                                             *)
(***************************************************************************)
IsRecurring(e) == e.recurrence \in KnownRecurrences

\* C1: for an event with recurrence 'none' the result is [event] whenever
\* the event's [start, end] overlaps [rangeStart, rangeEnd] (also when it
\* starts before the range and ends inside it), and [] when the event
\* touches no day of the range.  (Stated for an overlap of more than one
\* instant, so that an event that merely ends at rangeStart is not at issue.)
C1_NoneReturnedIffOverlap ==
  (ExpandDone /\ call.event.recurrence = "none" /\ ~call.event.isDeleted) =>
     /\ (/\ ~isAfter(call.event.start, call.rangeEnd)
         /\ isAfter(call.event.end, call.rangeStart))
           => ret.instances = <<call.event>>
     /\ (\/ call.event.start.day > call.rangeEnd.day
         \/ call.event.end.day < call.rangeStart.day)
           => ret.instances = <<>>

\* C2: every occurrence emitted for a daily, weekly, monthly or yearly event
\* lasts exactly as long as the base event (end - start is preserved).
C2_DurationPreserved ==
  (ExpandDone /\ IsRecurring(call.event)) =>
     \A i \in 1..Len(ret.instances) :
        SecondsBetween(ret.instances[i].start, ret.instances[i].end)
          = SecondsBetween(call.event.start, call.event.end)

\* C3: a daily event that starts on day D and has no recurrenceEnd, expanded
\* over the range from D to D + 6 days, yields exactly 7 occurrences, one on
\* each of the days D .. D+6, consecutive ones one day apart.
C3_DailyWeekHasSeven ==
  (/\ ExpandDone
   /\ call.event.recurrence = "daily"
   /\ call.event.recurrenceEnd = None
   /\ call.rangeStart = startOfDay(call.event.start)
   /\ call.rangeEnd = addDays(call.rangeStart, 6)) =>
     /\ Len(ret.instances) = 7
     /\ \A i \in 1..Len(ret.instances) :
           ret.instances[i].start = addDays(call.event.start, i - 1)

\* C7: the expansion loop runs its body at most maxIterations (365) times
\* for every event and range, and every run of the body advances the
\* iteration counter that the loop condition bounds: the function terminates.
C7_LoopBounded ==
  /\ (call.op = "expand" /\ pc = "loop") =>
        /\ frame.bodyRuns <= maxIterations
        /\ frame.iteration >= frame.bodyRuns
  /\ ExpandDone => ret.bodyRuns <= maxIterations

\* C7 witness: a yearly event whose recurrenceEnd is 10000 years after its
\* start, queried over a day 1000 years later, returned after 365 iterations.
C7_Witness ==
  /\ ExpandDone
  /\ call.event.recurrence = "yearly"
  /\ call.event.recurrenceEnd = Some(addYears(call.event.start, 10000))
  /\ call.rangeStart = startOfDay(addYears(call.event.start, 1000))
  /\ ret.bodyRuns = maxIterations

\* C8: for a recurrence value outside none/daily/weekly/monthly/yearly the
\* result is what recurrence 'none' gives: the event itself (same id, start
\* and end) when it passes the test of the 'none' branch, [] otherwise.
C8_UnknownRecurrenceAsNone ==
  (ExpandDone /\ call.event.recurrence \notin KnownRecurrences \cup {"none"}) =>
     LET expected == ExpandNone(call.event, call.rangeStart, call.rangeEnd)
     IN  /\ Len(ret.instances) = Len(expected)
         /\ \A i \in 1..Len(ret.instances) :
               /\ ret.instances[i].id = call.event.id
               /\ ret.instances[i].start = call.event.start
               /\ ret.instances[i].end = call.event.end

\* C9 (as claimed): expandRecurringEvent returns [] for an event with
\* isDeleted = true, whatever the range and the recurrence.
C9_ExpandOfDeletedIsEmpty ==
  (ExpandDone /\ call.event.isDeleted) => ret.instances = <<>>

\* C9 (amended): getEventsForDay returns no event and no occurrence of an
\* event with isDeleted = true, whatever the day and the recurrence: every
\* returned record is not deleted, and comes from a listed event that is
\* not deleted.
C9_DayViewExcludesDeleted ==
  DayDone =>
     \A i \in 1..Len(ret.events) :
        /\ ~ret.events[i].isDeleted
        /\ \E j \in 1..Len(call.events) :
              /\ ~call.events[j].isDeleted
              /\ ret.events[i] \in
                   {call.events[j]} \cup
                   {Instance(call.events[j], ret.events[i].start,
                             ret.events[i].end)}

\* C9 witness: a deleted event of a visible calendar that starts on the
\* queried day is listed beside a live one, and only the live one comes back.
C9_Witness ==
  /\ DayDone
  /\ Len(call.events) = 2
  /\ call.events[1].isDeleted
  /\ call.events[1].calendarId \in call.visibleCalendarIds
  /\ isSameDay(call.events[1].start, call.date)
  /\ ~call.events[2].isDeleted
  /\ Len(ret.events) = 1

\* C17: in the result of one call on a daily, weekly, monthly or yearly
\* event every occurrence id is '<base id>_<yyyy-MM-dd of the occurrence
\* start>', the ids are pairwise distinct, and none is the base event's id.
C17_OccurrenceIdsDistinct ==
  (ExpandDone /\ IsRecurring(call.event)) =>
     /\ \A i \in 1..Len(ret.instances) :
           LET id == ret.instances[i].id
               c == CivilFromDays(ret.instances[i].start.day)
           IN  /\ id = call.event.id \o <<"_">> \o Pad(c.y, 4) \o <<"-">>
                         \o Pad(c.m, 2) \o <<"-">> \o Pad(c.d, 2)
               /\ Len(id) = Len(call.event.id) + 11
               /\ id # call.event.id
     /\ \A i, j \in 1..Len(ret.instances) :
           i # j => ret.instances[i].id # ret.instances[j].id

\* C17 witness: a daily event expanded over a week gives several
\* occurrences, the first one with id e1_2024-03-10.
C17_Witness ==
  /\ ExpandDone
  /\ call.event.recurrence = "daily"
  /\ Len(ret.instances) >= 6
  /\ ret.instances[1].id
       = <<"e", "1", "_", "2", "0", "2", "4", "-", "0", "3", "-", "1", "0">>

\* Instant a is before instant b.
StrictlyEarlier(a, b) == a.day < b.day \/ (a.day = b.day /\ a.sec < b.sec)

\* C20: every occurrence emitted for a daily, weekly, monthly or yearly
\* event starts on or after the day of rangeStart, strictly before
\* rangeEnd, and strictly before recurrenceEnd when the event has one
\* (strictly before rangeEnd + 1 year when it has none); none starts after
\* recurrenceEnd.
C20_OccurrencesInsideBounds ==
  (ExpandDone /\ IsRecurring(call.event)) =>
     \A i \in 1..Len(ret.instances) :
        LET s == ret.instances[i].start
            limit == IF call.event.recurrenceEnd # None
                     THEN call.event.recurrenceEnd[1]
                     ELSE addYears(call.rangeEnd, 1)
        IN  /\ s.day >= call.rangeStart.day
            /\ StrictlyEarlier(s, call.rangeEnd)
            /\ StrictlyEarlier(s, limit)

\* C20 witness: a daily event whose recurrenceEnd is three days after its
\* start, expanded over the week that starts on its first day, gives the
\* three occurrences before recurrenceEnd.
C20_Witness ==
  /\ ExpandDone
  /\ call.event.recurrence = "daily"
  /\ call.event.recurrenceEnd = Some(addDays(call.event.start, 3))
  /\ call.rangeStart = startOfDay(call.event.start)
  /\ call.rangeEnd = endOfDay(addDays(call.event.start, 6))
  /\ Len(ret.instances) = 3

(***************************************************************************)
(* ICS codec (dateUtils.ts, 230-419).  The string literals of the code:    *)
(***************************************************************************)
LF == "\n"
CR == "\r"
TAB == "\t"
BS == "\\"

sBeginVCalendar == <<"B", "E", "G", "I", "N", ":", "V", "C", "A", "L", "E", "N", "D", "A", "R">>
sVersion == <<"V", "E", "R", "S", "I", "O", "N", ":", "2", ".", "0">>
sProdId == <<"P", "R", "O", "D", "I", "D", ":", "-", "/", "/", "C", "a", "l", "e", "n", "d", "a", "r", " ", "C", "l", "o", "n", "e", "/", "/", "E", "S">>
sCalScale == <<"C", "A", "L", "S", "C", "A", "L", "E", ":", "G", "R", "E", "G", "O", "R", "I", "A", "N">>
sMethod == <<"M", "E", "T", "H", "O", "D", ":", "P", "U", "B", "L", "I", "S", "H">>
sEndVCalendar == <<"E", "N", "D", ":", "V", "C", "A", "L", "E", "N", "D", "A", "R">>
sBeginVEvent == <<"B", "E", "G", "I", "N", ":", "V", "E", "V", "E", "N", "T">>
sEndVEvent == <<"E", "N", "D", ":", "V", "E", "V", "E", "N", "T">>
sUid == <<"U", "I", "D", ":">>
sUidSuffixWithoutAt == <<"-", "c", "a", "l", "e", "n", "d", "a", "r", "-", "c", "l", "o", "n", "e">>
sUidSuffix == <<"@", "c", "a", "l", "e", "n", "d", "a", "r", "-", "c", "l", "o", "n", "e">>
sDtStamp == <<"D", "T", "S", "T", "A", "M", "P", ":">>
sDtStart == <<"D", "T", "S", "T", "A", "R", "T">>
sDtEnd == <<"D", "T", "E", "N", "D">>
sValueDate == <<";", "V", "A", "L", "U", "E", "=", "D", "A", "T", "E">>
sSummary == <<"S", "U", "M", "M", "A", "R", "Y", ":">>
sDescription == <<"D", "E", "S", "C", "R", "I", "P", "T", "I", "O", "N", ":">>
sLocation == <<"L", "O", "C", "A", "T", "I", "O", "N", ":">>
sRRule == <<"R", "R", "U", "L", "E", ":">>
sFreqDaily == <<"F", "R", "E", "Q", "=", "D", "A", "I", "L", "Y">>
sFreqWeekly == <<"F", "R", "E", "Q", "=", "W", "E", "E", "K", "L", "Y">>
sFreqMonthly == <<"F", "R", "E", "Q", "=", "M", "O", "N", "T", "H", "L", "Y">>
sFreqYearly == <<"F", "R", "E", "Q", "=", "Y", "E", "A", "R", "L", "Y">>

\* formatICSDate (235-241): "yyyyMMdd" or "yyyyMMdd'T'HHmmss" in local time.
formatICSDate(date, allDay) ==
  LET c   == CivilFromDays(date.day)
      ymd == Pad(c.y, 4) \o Pad(c.m, 2) \o Pad(c.d, 2)
  IN  IF allDay THEN ymd
      ELSE ymd \o <<"T">> \o Pad(getHours(date), 2) \o Pad(getMinutes(date), 2)
               \o Pad(getSeconds(date), 2)

escapeICSTextKeepingNewlines(text) ==
  ReplaceAll(ReplaceAll(ReplaceAll(text,
    <<BS>>, <<BS, BS>>), <<";">>, <<BS, ";">>), <<",">>, <<BS, ",">>)

\* escapeICSText (243-249): four global replacements, in this order.
escapeICSText(text) ==
  ReplaceAll(ReplaceAll(ReplaceAll(ReplaceAll(text,
    <<BS>>, <<BS, BS>>), <<";">>, <<BS, ";">>), <<",">>, <<BS, ",">>),
    <<LF>>, <<BS, "n">>)

\* recurrenceToRRule (251-264): None stands for null.
recurrenceToRRule(recurrence) ==
  CASE recurrence = "daily"   -> Some(sRRule \o sFreqDaily)
    [] recurrence = "weekly"  -> Some(sRRule \o sFreqWeekly)
    [] recurrence = "monthly" -> Some(sRRule \o sFreqMonthly)
    [] recurrence = "yearly"  -> Some(sRRule \o sFreqYearly)
    [] OTHER -> None

\* lines.join(sep)
RECURSIVE Join(_, _)
Join(lines, sep) ==
  IF lines = <<>> THEN <<>>
  ELSE IF Len(lines) = 1 THEN lines[1]
  ELSE lines[1] \o sep \o Join(Tail(lines), sep)

\* An optional string is falsy when undefined or empty.
Truthy(opt) == opt # None /\ opt[1] # <<>>

EventIsSkippedNever(event) == FALSE

\* The early return of the forEach callback (276).
EventIsSkipped(event) == event.isDeleted

\* The lines pushed for one event (278-305).
EventLines(event, now) ==
  <<sBeginVEvent,
    sUid \o event.id \o sUidSuffix,
    sDtStamp \o formatICSDate(now, FALSE) \o <<"Z">>>>
  \o (IF event.allDay
      THEN <<sDtStart \o sValueDate \o <<":">> \o formatICSDate(event.start, TRUE),
             sDtEnd \o sValueDate \o <<":">> \o formatICSDate(event.end, TRUE)>>
      ELSE <<sDtStart \o <<":">> \o formatICSDate(event.start, FALSE),
             sDtEnd \o <<":">> \o formatICSDate(event.end, FALSE)>>)
  \o <<sSummary \o escapeICSText(event.title)>>
  \o (IF event.description # <<>>
      THEN <<sDescription \o escapeICSText(event.description)>> ELSE <<>>)
  \o (IF Truthy(event.location)
      THEN <<sLocation \o escapeICSText(event.location[1])>> ELSE <<>>)
  \o (LET rrule == recurrenceToRRule(event.recurrence)
      IN  IF rrule # None THEN <<rrule[1]>> ELSE <<>>)
  \o <<sEndVEvent>>

RECURSIVE AllEventLines(_, _)
AllEventLines(events, now) ==
  IF events = <<>> THEN <<>>
  ELSE (IF EventIsSkipped(Head(events)) THEN <<>>
        ELSE EventLines(Head(events), now))
       \o AllEventLines(Tail(events), now)

\* exportToICS (266-310); now is the value of new Date() during the call.
exportToICS(events, now) ==
  Join(<<sBeginVCalendar, sVersion, sProdId, sCalScale, sMethod>>
         \o AllEventLines(events, now)
         \o <<sEndVCalendar>>,
       <<CR, LF>>)

\* icsContent.split(/\r?\n/) (358).
RECURSIVE SplitLines(_)
SplitLines(text) ==
  LET i == IndexOfFrom(text, <<LF>>, 1)
  IN  IF i = 0 THEN <<text>>
      ELSE LET last == IF i > 1 /\ text[i - 1] = CR THEN i - 2 ELSE i - 1
           IN  <<SubSeq(text, 1, last)>> \o SplitLines(SubSeq(text, i + 1, Len(text)))

\* The prefix stripped by /^(DTSTART|DTEND)(;VALUE=DATE)?:/ (314); the line
\* is returned unchanged when the expression does not match.  (The /i flag
\* is not modelled: property names are upper case in every input.)
StripDatePrefix(dateStr) ==
  LET afterName ==
        IF startsWith(dateStr, sDtStart) THEN Some(SliceFrom(dateStr, Len(sDtStart)))
        ELSE IF startsWith(dateStr, sDtEnd) THEN Some(SliceFrom(dateStr, Len(sDtEnd)))
        ELSE None
  IN  IF afterName = None THEN dateStr
      ELSE IF startsWith(afterName[1], <<":">>) THEN SliceFrom(afterName[1], 1)
      ELSE IF startsWith(afterName[1], sValueDate \o <<":">>)
           THEN SliceFrom(afterName[1], Len(sValueDate) + 1)
      ELSE dateStr

MinusOneOmitted(n) == n

\* n - 1 on an optional number (NaN - 1 is NaN).
MinusOne(n) == IF n = None THEN None ELSE Some(n[1] - 1)

\* n || 0
OrZero(n) == IF n = None THEN Some(0) ELSE n

\* parseICSDate (312-338).
parseICSDate(dateStr) ==
  LET cleanStr == StripDatePrefix(dateStr)
  IN  IF Len(cleanStr) = 8
      THEN [date   |-> NewDate(parseInt(Slice(cleanStr, 0, 4)),
                               MinusOne(parseInt(Slice(cleanStr, 4, 6))),
                               parseInt(Slice(cleanStr, 6, 8)),
                               Some(0), Some(0), Some(0)),
            allDay |-> TRUE]
      ELSE LET datePart == SplitChar(ReplaceFirst(cleanStr, <<"Z">>, <<>>), "T")
               hasTime  == Len(datePart) >= 2 /\ datePart[2] # <<>>
           IN  [date   |-> NewDate(
                             parseInt(Slice(datePart[1], 0, 4)),
                             MinusOne(parseInt(Slice(datePart[1], 4, 6))),
                             parseInt(Slice(datePart[1], 6, 8)),
                             IF hasTime THEN parseInt(Slice(datePart[2], 0, 2))
                                        ELSE Some(0),
                             IF hasTime THEN parseInt(Slice(datePart[2], 2, 4))
                                        ELSE Some(0),
                             IF hasTime THEN OrZero(parseInt(Slice(datePart[2], 4, 6)))
                                        ELSE Some(0)),
                allDay |-> FALSE]

parseRRuleWeeklyAsDaily(rrule) ==
  IF includes(rrule, sFreqDaily) \/ includes(rrule, sFreqWeekly) THEN "daily"
  ELSE IF includes(rrule, sFreqMonthly) THEN "monthly"
  ELSE IF includes(rrule, sFreqYearly) THEN "yearly"
  ELSE "none"

\* parseRRule (340-346).
parseRRule(rrule) ==
  IF includes(rrule, sFreqDaily) THEN "daily"
  ELSE IF includes(rrule, sFreqWeekly) THEN "weekly"
  ELSE IF includes(rrule, sFreqMonthly) THEN "monthly"
  ELSE IF includes(rrule, sFreqYearly) THEN "yearly"
  ELSE "none"

\* unescapeICSText (348-354): four global replacements, in this order.
unescapeICSText(text) ==
  ReplaceAll(ReplaceAll(ReplaceAll(ReplaceAll(text,
    <<BS, "n">>, <<LF>>), <<BS, ",">>, <<",">>), <<BS, ";">>, <<";">>),
    <<BS, BS>>, <<BS>>)

IsContinuationSpaceOnly(line) == line # <<>> /\ line[1] = " "

\* A line that continues the previous one (367).
IsContinuation(line) == line # <<>> /\ line[1] \in {" ", TAB}

\* The unfolding loop (367-370) from physical line i (1-based): the logical
\* line and the index of the last physical line it consumed.
RECURSIVE Unfold(_, _, _)
Unfold(lines, i, line) ==
  IF i + 1 <= Len(lines) /\ IsContinuation(lines[i + 1])
  THEN Unfold(lines, i + 1, line \o SliceFrom(lines[i + 1], 1))
  ELSE [line |-> line, last |-> i]

\* crypto.randomUUID(): the n-th identifier generated during the call.
RandomUUID(n) == <<"u">> \o Pad(n, 1)

NewPartialEventUnstamped(id, calendarId, now) ==
  [id |-> id, calendarId |-> <<>>, type |-> "event",
   recurrence |-> "none", isDeleted |-> FALSE,
   createdAt |-> now, updatedAt |-> now,
   title |-> None, description |-> None, location |-> None,
   start |-> None, end |-> None]

\* The record created at BEGIN:VEVENT (373-381); title, description,
\* location, start and end are not set yet.
NewPartialEvent(id, calendarId, now) ==
  [id |-> id, calendarId |-> calendarId, type |-> "event",
   recurrence |-> "none", isDeleted |-> FALSE,
   createdAt |-> now, updatedAt |-> now,
   title |-> None, description |-> None, location |-> None,
   start |-> None, end |-> None]

IsCompleteRequiringLocation(currentEvent) ==
  /\ Truthy(currentEvent.title) /\ currentEvent.start # None
  /\ currentEvent.end # None /\ currentEvent.location # None

\* The test at END:VEVENT (384).
IsComplete(currentEvent) ==
  Truthy(currentEvent.title) /\ currentEvent.start # None /\ currentEvent.end # None

\* The object pushed at END:VEVENT (385-392).
FinishedEvent(currentEvent, allDay) ==
  [id |-> currentEvent.id, calendarId |-> currentEvent.calendarId,
   type |-> currentEvent.type, recurrence |-> currentEvent.recurrence,
   recurrenceEnd |-> None, isDeleted |-> currentEvent.isDeleted,
   createdAt |-> currentEvent.createdAt, updatedAt |-> currentEvent.updatedAt,
   location |-> currentEvent.location,
   allDay |-> allDay,
   title |-> currentEvent.title[1],
   description |-> IF Truthy(currentEvent.description)
                   THEN currentEvent.description[1] ELSE <<>>,
   start |-> currentEvent.start[1],
   end |-> currentEvent.end[1]]

\* date.toISOString() throws a RangeError on an Invalid Date.
ToISOStringThrows(date) == ~IsValidDate(date)

\* The state of the decoder between two logical lines: the output list,
\* the open record (None for null), the allDay flag, the number of UUIDs
\* drawn, and whether an exception has left the function.
DecoderStart ==
  [events |-> <<>>, currentEvent |-> None, allDay |-> FALSE, uuids |-> 0,
   threw |-> FALSE]

\* The property branches for an open record (396-414).
ProcessProperty(st, line) ==
  LET cur == st.currentEvent[1]
  IN  IF startsWith(line, sSummary)
      THEN [st EXCEPT !.currentEvent =
              Some([cur EXCEPT !.title = Some(unescapeICSText(SliceFrom(line, 8)))])]
      ELSE IF startsWith(line, sDescription)
      THEN [st EXCEPT !.currentEvent =
              Some([cur EXCEPT !.description = Some(unescapeICSText(SliceFrom(line, 12)))])]
      ELSE IF startsWith(line, sLocation)
      THEN [st EXCEPT !.currentEvent =
              Some([cur EXCEPT !.location = Some(unescapeICSText(SliceFrom(line, 9)))])]
      ELSE IF startsWith(line, sDtStart)
      THEN LET parsed == parseICSDate(line)
           IN  IF ToISOStringThrows(parsed.date)
               THEN [st EXCEPT !.threw = TRUE]
               ELSE [st EXCEPT !.currentEvent = Some([cur EXCEPT !.start = Some(parsed.date)]),
                               !.allDay = parsed.allDay]
      ELSE IF startsWith(line, sDtEnd)
      THEN LET parsed == parseICSDate(line)
           IN  IF ToISOStringThrows(parsed.date)
               THEN [st EXCEPT !.threw = TRUE]
               ELSE [st EXCEPT !.currentEvent = Some([cur EXCEPT !.end = Some(parsed.date)])]
      ELSE IF startsWith(line, sRRule)
      THEN [st EXCEPT !.currentEvent = Some([cur EXCEPT !.recurrence = parseRRule(line)])]
      ELSE IF startsWith(line, sUid)
      THEN [st EXCEPT !.currentEvent =
              Some([cur EXCEPT !.id = SplitChar(SliceFrom(line, 4), "@")[1]])]
      ELSE st

ProcessLineKeepingOpenRecord(st, line, calendarId, now) ==
  IF line = sBeginVEvent /\ st.currentEvent # None
  THEN st
  ELSE IF line = sBeginVEvent
  THEN [st EXCEPT !.currentEvent =
                     Some(NewPartialEvent(RandomUUID(st.uuids + 1), calendarId, now)),
                  !.uuids = @ + 1,
                  !.allDay = FALSE]
  ELSE IF line = sEndVEvent /\ st.currentEvent # None
  THEN [st EXCEPT !.events =
                     IF IsComplete(st.currentEvent[1])
                     THEN Append(@, FinishedEvent(st.currentEvent[1], st.allDay))
                     ELSE @,
                  !.currentEvent = None]
  ELSE IF st.currentEvent # None
  THEN ProcessProperty(st, line)
  ELSE st

\* The body of the for loop after unfolding (372-415) for one logical line.
ProcessLine(st, line, calendarId, now) ==
  IF line = sBeginVEvent
  THEN [st EXCEPT !.currentEvent =
                     Some(NewPartialEvent(RandomUUID(st.uuids + 1), calendarId, now)),
                  !.uuids = @ + 1,
                  !.allDay = FALSE]
  ELSE IF line = sEndVEvent /\ st.currentEvent # None
  THEN [st EXCEPT !.events =
                     IF IsComplete(st.currentEvent[1])
                     THEN Append(@, FinishedEvent(st.currentEvent[1], st.allDay))
                     ELSE @,
                  !.currentEvent = None]
  ELSE IF st.currentEvent # None
  THEN ProcessProperty(st, line)
  ELSE st

\* The for loop (363-416) from physical line i; it stops when an exception
\* is thrown.
RECURSIVE DecodeLines(_, _, _, _, _)
DecodeLines(lines, i, st, calendarId, now) ==
  IF i > Len(lines) \/ st.threw THEN st
  ELSE LET u == Unfold(lines, i, lines[i])
       IN  DecodeLines(lines, u.last + 1,
                       ProcessLine(st, u.line, calendarId, now), calendarId, now)

\* importFromICS (356-419): the returned list, or threw = TRUE when the
\* call ends with an exception (and returns nothing).
importFromICS(icsContent, calendarId, now) ==
  LET st == DecodeLines(SplitLines(icsContent), 1, DecoderStart, calendarId, now)
  IN  [threw |-> st.threw, events |-> IF st.threw THEN <<>> ELSE st.events]

(***************************************************************************)
(* Inputs of the ICS codec.                                                *)
(***************************************************************************)
MaxTextLen == 3
MaxEvents == 2
MaxBlocks == 2

TextAlphabet == {"a", "n", BS, ";", ",", LF}

Texts == Seqs(TextAlphabet, MaxTextLen)

Day0 == DaysFromCivil(2024, 3, 10)

IcsNow == MkDate(DaysFromCivil(2024, 3, 9), 8 * 3600 + 15 * 60 + 7)

TextPool == {<<"a">>, <<"x", LF, "y">>, <<BS, "n">>, <<"a", ";", ",">>, <<"x", CR, LF>>}

\* Events that differ in their texts, in their dates, and in their flags.
TextEvents ==
  {[BaseEvent EXCEPT !.title = t, !.description = d, !.location = l] :
     t \in TextPool, d \in {<<>>, <<"d", BS>>, <<"d", LF, "e">>},
     l \in {None, Some(<<>>), Some(<<"l", ",">>), Some(<<LF, "l">>)}}

DateEvents ==
  {[BaseEvent EXCEPT !.allDay = x[1], !.start = x[2], !.end = x[3]] :
     x \in {<<FALSE, MkDate(Day0, 9 * 3600 + 30), MkDate(Day0, 10 * 3600)>>,
            <<FALSE, MkDate(Day0, 23 * 3600), MkDate(Day0 + 1, 3600)>>,
            <<FALSE, MkDate(Day0, 0), MkDate(Day0, 0)>>,
            <<TRUE, MkDate(Day0, 0), MkDate(Day0 + 1, 0)>>,
            <<TRUE, MkDate(Day0, 0), MkDate(Day0, 0)>>}}

FlagEvents ==
  {[BaseEvent EXCEPT !.isDeleted = del, !.recurrence = r, !.recurrenceEnd = re] :
     del \in BOOLEAN, r \in Recurrences,
     re \in {None, Some(MkDate(Day0 + 30, 0))}}

SingleEvents == TextEvents \cup DateEvents \cup FlagEvents

\* The events of the lists of more than one event.
SecondEvent ==
  [BaseEvent EXCEPT !.id = IdE2, !.title = <<"b">>,
                    !.start = MkDate(Day0, 11 * 3600),
                    !.end = MkDate(Day0, 12 * 3600)]

ListPool ==
  {BaseEvent,
   [BaseEvent EXCEPT !.isDeleted = TRUE],
   [BaseEvent EXCEPT !.recurrence = "weekly",
                     !.recurrenceEnd = Some(MkDate(Day0 + 30, 0))],
   SecondEvent,
   [SecondEvent EXCEPT !.isDeleted = TRUE],
   [SecondEvent EXCEPT !.allDay = TRUE, !.start = MkDate(Day0, 0),
                       !.end = MkDate(Day0 + 1, 0),
                       !.description = <<"d">>, !.location = Some(<<"l">>)]}

EscapeCalls == {[op |-> "escape", text |-> t] : t \in Texts}

ExportCalls ==
  {[op |-> "export", events |-> es, now |-> IcsNow, calendarId |-> CalC2] :
     es \in {<<e>> : e \in SingleEvents} \cup Seqs(ListPool, MaxEvents)}

lDtStartGood == <<"D", "T", "S", "T", "A", "R", "T", ":", "2", "0", "2", "4", "0", "3", "1", "0", "T", "0", "9", "0", "0", "0", "0">>
lDtEndGood == <<"D", "T", "E", "N", "D", ":", "2", "0", "2", "4", "0", "3", "1", "0", "T", "1", "0", "0", "0", "0", "0">>
lDtStartTzid == <<"D", "T", "S", "T", "A", "R", "T", ";", "T", "Z", "I", "D", "=", "X", ":", "2", "0", "2", "4", "0", "3", "1", "0", "T", "0", "9", "0", "0", "0", "0">>
lDtEndTzid == <<"D", "T", "E", "N", "D", ";", "T", "Z", "I", "D", "=", "X", ":", "2", "0", "2", "4", "0", "3", "1", "0", "T", "1", "0", "0", "0", "0", "0">>
lDtStartAlpha == <<"D", "T", "S", "T", "A", "R", "T", ":", "a", "b", "c">>
lUnknown == <<"X", "-", "F", "O", "O", ":", "b", "a", "r">>
lGarbage == <<"g", "a", "r", "b", "a", "g", "e">>
lSummaryA == <<"S", "U", "M", "M", "A", "R", "Y", ":", "a">>

\* The lines of a VEVENT block of each kind, for the UID uid: a complete
\* block; the same with a line the decoder does not recognize; with the
\* DTSTART or DTEND line carrying a TZID parameter; with a non-numeric
\* DTSTART payload; without its SUMMARY line.
BlockKinds ==
  {"good", "unknownLine", "garbageLine", "tzidStart", "tzidEnd", "alphaStart",
   "noSummary"}

BlockLines(kind, uid) ==
  <<sBeginVEvent, sUid \o uid \o <<"@", "x">>>>
  \o <<CASE kind = "tzidStart"  -> lDtStartTzid
         [] kind = "alphaStart" -> lDtStartAlpha
         [] OTHER -> lDtStartGood>>
  \o <<IF kind = "tzidEnd" THEN lDtEndTzid ELSE lDtEndGood>>
  \o (CASE kind = "unknownLine" -> <<lUnknown>>
        [] kind = "garbageLine" -> <<lGarbage>>
        [] OTHER -> <<>>)
  \o (IF kind = "noSummary" THEN <<>> ELSE <<lSummaryA>>)
  \o <<sEndVEvent>>

\* Title, start and end of a block are all present and well formed.
IsCompleteKind(kind) == kind \in {"good", "unknownLine", "garbageLine"}

\* The UID of the i-th block of a file.
BlockUid(i) == <<"e">> \o Pad(i, 1)

RECURSIVE FileBlockLines(_, _)
FileBlockLines(kinds, i) ==
  IF i > Len(kinds) THEN <<>>
  ELSE BlockLines(kinds[i], BlockUid(i)) \o FileBlockLines(kinds, i + 1)

\* A calendar file: the wrapper, a property line outside any VEVENT, the
\* blocks; lines end with eol.
FileText(kinds, eol) ==
  Join(<<sBeginVCalendar, sVersion, lDtStartAlpha>>
         \o FileBlockLines(kinds, 1) \o <<sEndVCalendar>>,
       eol)

ImportCalls ==
  {[op |-> "import", kinds |-> ks, icsContent |-> FileText(ks, eol),
    now |-> IcsNow, calendarId |-> CalC2] :
     ks \in Seqs(BlockKinds, MaxBlocks), eol \in {<<CR, LF>>, <<LF>>}}

(***************************************************************************)
(* Calendar files written by other applications: VEVENT blocks whose       *)
(* SUMMARY, DTSTART, DTEND, RRULE and UID lines vary in form, order and    *)
(* folding.  Each block description carries the physical lines of the      *)
(* block together with the values those lines stand for.                   *)
(***************************************************************************)
\* A SUMMARY property as physical lines: the first line and the
\* continuation lines (each starts with one space or tab); title is the
\* value of the unfolded property.
SummaryForms ==
  {[lines |-> <<<<"S", "U", "M", "M", "A", "R", "Y", ":", "a", "b", "c">>>>, title |-> <<"a", "b", "c">>],
   [lines |-> <<<<"S", "U", "M", "M", "A", "R", "Y", ":", "a">>, <<" ", "b", "c">>>>, title |-> <<"a", "b", "c">>],
   [lines |-> <<<<"S", "U", "M", "M", "A", "R", "Y", ":", "a", "b">>, <<TAB, "c">>>>, title |-> <<"a", "b", "c">>],
   [lines |-> <<<<"S", "U", "M", "M", "A", "R", "Y", ":", "a">>, <<" ", "b">>, <<TAB, "c">>>>, title |-> <<"a", "b", "c">>],
   [lines |-> <<<<"S", "U", "M", "M", "A", "R", "Y", ":", "a">>, <<" ", " ", "b">>>>, title |-> <<"a", " ", "b">>],
   [lines |-> <<<<"S", "U", "M", "M">>, <<" ", "A", "R", "Y", ":", "a", "b", "c">>>>, title |-> <<"a", "b", "c">>],
   [lines |-> <<<<"S", "U", "M", "M", "A", "R", "Y", ":">>, <<" ", "a", "b", "c">>>>, title |-> <<"a", "b", "c">>]}

PlainSummary == [lines |-> <<<<"S", "U", "M", "M", "A", "R", "Y", ":", "a", "b", "c">>>>, title |-> <<"a", "b", "c">>]

NoSummary == [lines |-> <<>>, title |-> <<>>]

\* The payloads of a DTSTART or DTEND line, at hour h: date-time, date-time
\* with a trailing Z, date only, date only with the VALUE=DATE parameter.
DateForms == {"timed", "timedZ", "date8", "valueDate", "missing"}

DateIsAllDayForm(form) == form \in {"date8", "valueDate"}

DateLine(name, form, hh) ==
  CASE form = "timed"     -> <<name \o <<":">> \o <<"2", "0", "2", "4", "0", "3", "1", "0">> \o <<"T">> \o hh \o <<"3", "0", "1", "5">>>>
    [] form = "timedZ"    -> <<name \o <<":">> \o <<"2", "0", "2", "4", "0", "3", "1", "0">> \o <<"T">> \o hh \o <<"3", "0", "1", "5">> \o <<"Z">>>>
    [] form = "date8"     -> <<name \o <<":">> \o <<"2", "0", "2", "4", "0", "3", "1", "0">>>>
    [] form = "valueDate" -> <<name \o sValueDate \o <<":">> \o <<"2", "0", "2", "4", "0", "3", "1", "0">>>>
    [] OTHER              -> <<>>

\* The instant a payload stands for, read as local time.
DateValue(form, hour) ==
  IF DateIsAllDayForm(form) THEN MkDate(Day0, 0)
  ELSE MkDate(Day0, hour * 3600 + 30 * 60 + 15)

\* An RRULE line and the recurrence it stands for; HOURLY is a frequency
\* the application does not know.
RRuleForms ==
  {[lines |-> <<>>, recurrence |-> "none"],
   [lines |-> <<sRRule \o sFreqDaily>>, recurrence |-> "daily"],
   [lines |-> <<sRRule \o sFreqWeekly>>, recurrence |-> "weekly"],
   [lines |-> <<sRRule \o sFreqMonthly>>, recurrence |-> "monthly"],
   [lines |-> <<sRRule \o sFreqYearly>>, recurrence |-> "yearly"],
   [lines |-> <<sRRule \o sFreqWeekly \o <<";", "U", "N", "T", "I", "L", "=", "2", "0", "2", "4", "0", "4", "1", "0", "T", "0", "0", "0", "0", "0", "0", "Z">>>>, recurrence |-> "weekly"],
   [lines |-> <<sRRule \o <<"F", "R", "E", "Q", "=", "H", "O", "U", "R", "L", "Y">>>>, recurrence |-> "none"]}

NoRRule == [lines |-> <<>>, recurrence |-> "none"]

\* A UID line and the identifier before its first '@'.
UidForms ==
  {[lines |-> <<>>, id |-> None],
   [lines |-> <<sUid \o IdE1>>, id |-> Some(IdE1)],
   [lines |-> <<sUid \o IdE2 \o sUidSuffix>>, id |-> Some(IdE2)],
   [lines |-> <<sUid \o IdE1 \o <<"@", "a", "@", "b">>>>, id |-> Some(IdE1)]}

NoUid == [lines |-> <<>>, id |-> None]

\* Lines the decoder has no branch for.
lCalendarId == <<"C", "A", "L", "E", "N", "D", "A", "R", "I", "D", ":", "c", "1">>
lXWrCalName == <<"X", "-", "W", "R", "-", "C", "A", "L", "N", "A", "M", "E", ":", "c", "1">>

PlainBlock ==
  [summary |-> PlainSummary, dtstart |-> "timed", dtend |-> "timed",
   endFirst |-> FALSE, rrule |-> NoRRule, uid |-> NoUid, other |-> <<>>]

\* Blocks that vary one aspect of PlainBlock (the two date lines and their
\* order vary together).
DecodeBlocks ==
  {[PlainBlock EXCEPT !.summary = s] : s \in SummaryForms \cup {NoSummary}}
  \cup {[PlainBlock EXCEPT !.dtstart = ds, !.dtend = de, !.endFirst = ef] :
          ds \in DateForms, de \in DateForms, ef \in BOOLEAN}
  \cup {[PlainBlock EXCEPT !.rrule = r] : r \in RRuleForms}
  \cup {[PlainBlock EXCEPT !.uid = u] : u \in UidForms}
  \cup {[PlainBlock EXCEPT !.other = o] : o \in {<<lCalendarId>>, <<lXWrCalName>>}}

\* The blocks of the files of more than one block.
DecodeBlockPool ==
  {PlainBlock,
   [PlainBlock EXCEPT !.summary = NoSummary],
   [PlainBlock EXCEPT !.dtstart = "missing"],
   [PlainBlock EXCEPT !.dtend = "missing", !.uid = [lines |-> <<sUid \o IdE1>>, id |-> Some(IdE1)]],
   [PlainBlock EXCEPT !.dtstart = "valueDate", !.dtend = "valueDate",
                      !.rrule = [lines |-> <<sRRule \o sFreqDaily>>, recurrence |-> "daily"],
                      !.uid = [lines |-> <<sUid \o IdE2 \o sUidSuffix>>, id |-> Some(IdE2)],
                      !.other = <<lCalendarId>>]}

DecodeBlockLines(b) ==
  <<sBeginVEvent>>
  \o b.uid.lines
  \o b.other
  \o (IF b.endFirst
      THEN DateLine(sDtEnd, b.dtend, <<"1", "0">>) \o DateLine(sDtStart, b.dtstart, <<"0", "9">>)
      ELSE DateLine(sDtStart, b.dtstart, <<"0", "9">>) \o DateLine(sDtEnd, b.dtend, <<"1", "0">>))
  \o b.summary.lines
  \o b.rrule.lines
  \o <<sEndVEvent>>

RECURSIVE DecodeFileLines(_)
DecodeFileLines(blocks) ==
  IF blocks = <<>> THEN <<>>
  ELSE DecodeBlockLines(Head(blocks)) \o DecodeFileLines(Tail(blocks))

DecodeFileText(blocks, eol) ==
  Join(<<sBeginVCalendar, sVersion, lXWrCalName>>
         \o DecodeFileLines(blocks) \o <<sEndVCalendar>>,
       eol)

DecodeCalls ==
  {[op |-> "decode", blocks |-> bs, icsContent |-> DecodeFileText(bs, eol),
    now |-> IcsNow, calendarId |-> CalC2] :
     bs \in {<<b>> : b \in DecodeBlocks} \cup Seqs(DecodeBlockPool, MaxBlocks),
     eol \in {<<CR, LF>>, <<LF>>}}

(***************************************************************************)
(* Calendar files with two VEVENT blocks and lines between or after them,  *)
(* and files whose VEVENT holds a VALARM sub-component.                    *)
(***************************************************************************)
MaxStrayLines == 2

\* The first block: an all-day daily event with every property the decoder
\* reads; it may lack its SUMMARY line or its END:VEVENT line, or be absent.
FirstBlockForms == {"complete", "withoutSummary", "unterminated", "absent"}

FirstBlockLines(form) ==
  IF form = "absent" THEN <<>>
  ELSE <<sBeginVEvent, <<"U", "I", "D", ":", "e", "1", "@", "x">>, <<"D", "T", "S", "T", "A", "R", "T", ";", "V", "A", "L", "U", "E", "=", "D", "A", "T", "E", ":", "2", "0", "2", "4", "0", "3", "1", "0">>,
         <<"D", "T", "E", "N", "D", ";", "V", "A", "L", "U", "E", "=", "D", "A", "T", "E", ":", "2", "0", "2", "4", "0", "3", "1", "1">>>>
       \o (IF form = "withoutSummary" THEN <<>> ELSE <<<<"S", "U", "M", "M", "A", "R", "Y", ":", "f", "i", "r", "s", "t">>>>)
       \o <<<<"D", "E", "S", "C", "R", "I", "P", "T", "I", "O", "N", ":", "d", "d">>, <<"L", "O", "C", "A", "T", "I", "O", "N", ":", "l", "l">>, sRRule \o sFreqDaily>>
       \o (IF form = "unterminated" THEN <<>> ELSE <<sEndVEvent>>)

\* Property lines and an END:VEVENT line that stand outside the second
\* block.
StrayLines ==
  {<<"S", "U", "M", "M", "A", "R", "Y", ":", "z", "z", "z">>, <<"D", "E", "S", "C", "R", "I", "P", "T", "I", "O", "N", ":", "z", "z">>, <<"L", "O", "C", "A", "T", "I", "O", "N", ":", "z", "z">>, sRRule \o sFreqWeekly,
   <<"U", "I", "D", ":", "z", "z">>, <<"D", "T", "S", "T", "A", "R", "T", ";", "V", "A", "L", "U", "E", "=", "D", "A", "T", "E", ":", "2", "0", "2", "4", "0", "3", "1", "2">>, sEndVEvent}

\* The second block: a timed event with a title, a start and an end only.
SecondBlockLines ==
  <<sBeginVEvent, <<"D", "T", "S", "T", "A", "R", "T", ":", "2", "0", "2", "4", "0", "3", "1", "0", "T", "0", "9", "3", "0", "1", "5">>, <<"D", "T", "E", "N", "D", ":", "2", "0", "2", "4", "0", "3", "1", "0", "T", "1", "0", "3", "0", "1", "5">>,
    <<"S", "U", "M", "M", "A", "R", "Y", ":", "a", "b", "c">>, sEndVEvent>>

IsolationCalls ==
  {[op |-> "isolate", first |-> f, stray |-> s, strayAfter |-> after,
    icsContent |->
      Join(<<sBeginVCalendar>> \o FirstBlockLines(f)
             \o (IF after THEN SecondBlockLines \o s ELSE s \o SecondBlockLines)
             \o <<sEndVCalendar>>,
           <<CR, LF>>),
    now |-> IcsNow, calendarId |-> CalC2] :
     f \in FirstBlockForms, s \in Seqs(StrayLines, MaxStrayLines),
     after \in BOOLEAN}

\* The lines of a VALARM sub-component with the given property lines.
AlarmLines(props) ==
  <<<<"B", "E", "G", "I", "N", ":", "V", "A", "L", "A", "R", "M">>, <<"A", "C", "T", "I", "O", "N", ":", "D", "I", "S", "P", "L", "A", "Y">>>> \o props \o <<<<"T", "R", "I", "G", "G", "E", "R", ":", "-", "P", "T", "1", "5", "M">>, <<"E", "N", "D", ":", "V", "A", "L", "A", "R", "M">>>>

AlarmProperties ==
  {<<>>, <<<<"D", "E", "S", "C", "R", "I", "P", "T", "I", "O", "N", ":", "z", "z">>>>, <<<<"S", "U", "M", "M", "A", "R", "Y", ":", "z", "z", "z">>>>, <<<<"L", "O", "C", "A", "T", "I", "O", "N", ":", "z", "z">>>>,
   <<<<"D", "E", "S", "C", "R", "I", "P", "T", "I", "O", "N", ":", "z", "z">>, <<"S", "U", "M", "M", "A", "R", "Y", ":", "z", "z", "z">>>>}

\* A VEVENT with title abc, with or without a description dd, and a VALARM
\* right after BEGIN:VEVENT or right before END:VEVENT.
NestedCalls ==
  {[op |-> "nested", alarm |-> a, alarmLast |-> last, described |-> d,
    icsContent |->
      LET own == <<<<"D", "T", "S", "T", "A", "R", "T", ":", "2", "0", "2", "4", "0", "3", "1", "0", "T", "0", "9", "3", "0", "1", "5">>, <<"D", "T", "E", "N", "D", ":", "2", "0", "2", "4", "0", "3", "1", "0", "T", "1", "0", "3", "0", "1", "5">>, <<"S", "U", "M", "M", "A", "R", "Y", ":", "a", "b", "c">>>>
                   \o (IF d THEN <<<<"D", "E", "S", "C", "R", "I", "P", "T", "I", "O", "N", ":", "d", "d">>>> ELSE <<>>)
      IN  Join(<<sBeginVCalendar, sBeginVEvent>>
                 \o (IF last THEN own \o AlarmLines(a) ELSE AlarmLines(a) \o own)
                 \o <<sEndVEvent, sEndVCalendar>>,
               eol),
    now |-> IcsNow, calendarId |-> CalC2] :
     a \in AlarmProperties, last \in BOOLEAN, d \in BOOLEAN,
     eol \in {<<CR, LF>>, <<LF>>}}

(***************************************************************************)
(* Specification of the codec: a call is drawn, then applied.  An export   *)
(* is followed by the import of the exported text.                         *)
(***************************************************************************)
InitICS ==
  /\ pc = "call"
  /\ call \in EscapeCalls \cup ExportCalls \cup ImportCalls \cup DecodeCalls
              \cup IsolationCalls \cup NestedCalls
  /\ frame = Idle
  /\ ret = Idle
  /\ AppIdle

\* escapeICSText, then unescapeICSText on its result.
ApplyEscapeUnescape ==
  /\ pc = "call"
  /\ call.op = "escape"
  /\ ret' = [escaped |-> escapeICSText(call.text),
             unescaped |-> unescapeICSText(escapeICSText(call.text))]
  /\ pc' = "done"
  /\ UNCHANGED <<call, frame>>
  /\ UNCHANGED appVars

ApplyExport ==
  /\ pc = "call"
  /\ call.op = "export"
  /\ frame' = [ics |-> exportToICS(call.events, call.now)]
  /\ pc' = "exported"
  /\ UNCHANGED <<call, ret>>
  /\ UNCHANGED appVars

\* importFromICS on the text just exported.
ApplyImportExported ==
  /\ pc = "exported"
  /\ ret' = importFromICS(frame.ics, call.calendarId, call.now)
  /\ pc' = "done"
  /\ UNCHANGED <<call, frame>>
  /\ UNCHANGED appVars

\* importFromICS on a file written by another application.
ApplyImport ==
  /\ pc = "call"
  /\ call.op \in {"import", "decode", "isolate", "nested"}
  /\ ret' = importFromICS(call.icsContent, call.calendarId, call.now)
  /\ pc' = "done"
  /\ UNCHANGED <<call, frame>>
  /\ UNCHANGED appVars

NextICS ==
  ApplyEscapeUnescape \/ ApplyExport \/ ApplyImportExported \/ ApplyImport

SpecICS == InitICS /\ [][NextICS]_vars

EscapeDone == pc = "done" /\ call.op = "escape"

Exported == pc \in {"exported", "done"} /\ call.op = "export"

RoundTripDone == pc = "done" /\ call.op = "export"

ImportDone == pc = "done" /\ call.op = "import"

DecodeDone == pc = "done" /\ call.op = "decode"

IsolateDone == pc = "done" /\ call.op = "isolate"

NestedDone == pc = "done" /\ call.op = "nested"

(***************************************************************************)
(* Properties of the codec.                                                *)
(***************************************************************************)
\* An absent location and an empty one are the same text.
LocationText(location) == IF location = None THEN <<>> ELSE location[1]

\* Equal to the second for a timed event, to the day for an all-day event.
SameInstant(a, b, allDay) == IF allDay THEN a.day = b.day ELSE a = b

\* C4: exporting a list of non-deleted, non-recurring events with non-empty
\* titles and importing the text returns one event per input event, in
\* order, with the same title, start, end, allDay, description and location.
C4_RoundTrip ==
  (/\ RoundTripDone
   /\ \A i \in 1..Len(call.events) :
         /\ ~call.events[i].isDeleted
         /\ call.events[i].recurrence = "none"
         /\ call.events[i].title # <<>>) =>
     /\ ~ret.threw
     /\ Len(ret.events) = Len(call.events)
     /\ \A i \in 1..Len(ret.events) :
           LET in == call.events[i]
               out == ret.events[i]
           IN  /\ out.title = in.title
               /\ out.allDay = in.allDay
               /\ SameInstant(out.start, in.start, in.allDay)
               /\ SameInstant(out.end, in.end, in.allDay)
               /\ out.description = in.description
               /\ LocationText(out.location) = LocationText(in.location)

\* C5: unescapeICSText(escapeICSText(s)) = s for every string s of
\* backslashes, semicolons, commas, newlines and letters, 'n' included.
C5_UnescapeInvertsEscape ==
  EscapeDone => ret.unescaped = call.text

\* C6: importFromICS never throws, and every complete VEVENT block of the
\* file is returned, whatever malformed or unrecognized lines the file holds.
C6_ImportNeverThrows ==
  ImportDone =>
     /\ ~ret.threw
     /\ \A i \in 1..Len(call.kinds) :
           IsCompleteKind(call.kinds[i]) =>
              \E j \in 1..Len(ret.events) : ret.events[j].id = BlockUid(i)

\* C10: the exported text is one VCALENDAR wrapper that holds exactly one
\* BEGIN:VEVENT .. END:VEVENT block per event with isDeleted = false, in
\* input order (one UID line per block, that of the event), and no block and
\* no UID line for a deleted event.
C10_OneBlockPerLiveEvent ==
  Exported =>
     LET lines   == SplitLines(frame.ics)
         isLive(e) == ~e.isDeleted
         live    == SelectSeq(call.events, isLive)
         isUid(l) == startsWith(l, sUid)
         at(l)   == {i \in 1..Len(lines) : lines[i] = l}
         begins  == at(sBeginVEvent)
         ends    == at(sEndVEvent)
         uids    == {i \in 1..Len(lines) : isUid(lines[i])}
     IN  /\ at(sBeginVCalendar) = {1}
         /\ at(sEndVCalendar) = {Len(lines)}
         /\ Cardinality(begins) = Len(live)
         /\ Cardinality(ends) = Len(live)
         /\ SelectSeq(lines, isUid)
              = [k \in 1..Len(live) |-> sUid \o live[k].id \o sUidSuffix]
         /\ \A b \in begins :
               \E e \in ends :
                  /\ b < e
                  /\ \A i \in (b + 1)..(e - 1) : i \notin begins \cup ends
                  /\ Cardinality(uids \cap (b..e)) = 1
         /\ \A u \in uids : \E b \in begins : b < u /\ \A e \in ends : ~(b < e /\ e < u)

\* C10 witness: a deleted event followed by a live one is exported as a
\* single block, that of the live event.
C10_Witness ==
  /\ Exported
  /\ Len(call.events) = 2
  /\ call.events[1].isDeleted
  /\ ~call.events[2].isDeleted
  /\ call.events[1].id # call.events[2].id
  /\ Cardinality({i \in 1..Len(SplitLines(frame.ics)) :
                    SplitLines(frame.ics)[i] = sBeginVEvent}) = 1

(***************************************************************************)
(* Properties of the decoder on files written by other applications.       *)
(***************************************************************************)
\* A block that carries a title, a start and an end.
BlockIsComplete(b) ==
  b.summary.lines # <<>> /\ b.dtstart # "missing" /\ b.dtend # "missing"

CompleteBlocks(blocks) == SelectSeq(blocks, BlockIsComplete)

\* C11: lines are unfolded before property parsing: each physical line that
\* begins with a space or a tab is appended to the preceding line without
\* its one leading whitespace character, so the title decoded from a
\* SUMMARY property split over two or more physical lines (inside its
\* value or inside its name) is the unfolded value.
C11_FoldedSummaryDecodes ==
  DecodeDone =>
     LET complete == CompleteBlocks(call.blocks)
     IN  /\ Len(ret.events) = Len(complete)
         /\ \A k \in 1..Len(complete) :
               ret.events[k].title = complete[k].summary.title

\* C11 witness: a SUMMARY split over three physical lines, the last one
\* indented with a tab, is decoded to its unfolded value.
C11_Witness ==
  /\ DecodeDone
  /\ Len(call.blocks) = 1
  /\ Len(call.blocks[1].summary.lines) = 3
  /\ Len(ret.events) = 1
  /\ ret.events[1].title = <<"a", "b", "c">>

C13_StampedWithTargetCalendar ==
  (pc = "done" /\ call.op \in {"export", "import", "decode"}) =>
     \A k \in 1..Len(ret.events) : ret.events[k].calendarId = call.calendarId

\* C13 witness: a block with a CALENDARID line naming another calendar is
\* returned with the caller's calendarId.
C13_Witness ==
  /\ DecodeDone
  /\ Len(call.blocks) = 1
  /\ call.blocks[1].other = <<lCalendarId>>
  /\ Len(ret.events) = 1
  /\ ret.events[1].calendarId = CalC2

\* The positions in the file of the blocks that are complete.
CompleteIndexes(blocks) ==
  SelectSeq([i \in 1..Len(blocks) |-> i], LAMBDA i : BlockIsComplete(blocks[i]))

\* C14: a decoded event is all-day whenever its DTSTART or its DTEND line
\* carries VALUE=DATE or an 8-character date-only payload, whichever of the
\* two lines carries it and in whichever order they appear; otherwise it is
\* not all-day.
C14_AllDayFromEitherDateLine ==
  DecodeDone =>
     LET complete == CompleteBlocks(call.blocks)
     IN  /\ Len(ret.events) = Len(complete)
         /\ \A k \in 1..Len(complete) :
               ret.events[k].allDay
                 = (DateIsAllDayForm(complete[k].dtstart)
                      \/ DateIsAllDayForm(complete[k].dtend))

\* The exported events, in order.
LiveEvents(events) == SelectSeq(events, LAMBDA e : ~e.isDeleted)

\* The RRULE line of a recurrence value, <<>> when it has none.
RRuleLinesOf(recurrence) ==
  CASE recurrence = "daily"   -> <<sRRule \o sFreqDaily>>
    [] recurrence = "weekly"  -> <<sRRule \o sFreqWeekly>>
    [] recurrence = "monthly" -> <<sRRule \o sFreqMonthly>>
    [] recurrence = "yearly"  -> <<sRRule \o sFreqYearly>>
    [] OTHER -> <<>>

RECURSIVE AllRRuleLines(_)
AllRRuleLines(events) ==
  IF events = <<>> THEN <<>>
  ELSE RRuleLinesOf(Head(events).recurrence) \o AllRRuleLines(Tail(events))

\* C15: the exported text holds exactly one RRULE:FREQ=<DAILY|WEEKLY|
\* MONTHLY|YEARLY> line for each exported recurring event and none for
\* 'none'; decoding it gives back the recurrence of each event for the five
\* values; a FREQ the decoder does not know decodes to 'none'; a decoded
\* event never has a recurrenceEnd, even when the exported one had.
C15_RecurrenceThroughCodec ==
  /\ Exported =>
        SelectSeq(SplitLines(frame.ics), LAMBDA l : startsWith(l, sRRule))
          = AllRRuleLines(LiveEvents(call.events))
  /\ RoundTripDone =>
        LET live == LiveEvents(call.events)
        IN  /\ Len(ret.events) = Len(live)
            /\ \A k \in 1..Len(live) :
                  /\ live[k].recurrence \in KnownRecurrences \cup {"none"}
                       => ret.events[k].recurrence = live[k].recurrence
                  /\ ret.events[k].recurrenceEnd = None
  /\ DecodeDone =>
        LET complete == CompleteBlocks(call.blocks)
        IN  /\ Len(ret.events) = Len(complete)
            /\ \A k \in 1..Len(complete) :
                  /\ ret.events[k].recurrence = complete[k].rrule.recurrence
                  /\ ret.events[k].recurrenceEnd = None

\* C15 witness: a weekly event with a recurrenceEnd is exported and decoded
\* as a weekly event without one.
C15_Witness ==
  /\ RoundTripDone
  /\ Len(call.events) = 1
  /\ call.events[1].recurrence = "weekly"
  /\ call.events[1].recurrenceEnd # None
  /\ Len(ret.events) = 1
  /\ ret.events[1].recurrence = "weekly"
  /\ ret.events[1].recurrenceEnd = None

\* C16: an exported event (its id has no '@') is decoded with the same id;
\* a decoded block takes as id the part of its UID value before the first
\* '@', and a block without a UID line the identifier generated when its
\* BEGIN:VEVENT was read.
C16_IdPreservedOnReimport ==
  /\ RoundTripDone =>
        LET live == LiveEvents(call.events)
        IN  /\ Len(ret.events) = Len(live)
            /\ \A k \in 1..Len(live) : ret.events[k].id = live[k].id
  /\ DecodeDone =>
        LET at == CompleteIndexes(call.blocks)
        IN  /\ Len(ret.events) = Len(at)
            /\ \A k \in 1..Len(at) :
                  LET uid == call.blocks[at[k]].uid
                  IN  ret.events[k].id
                        = IF uid.id # None THEN uid.id[1] ELSE RandomUUID(at[k])

\* C16 witness: two events with different ids are exported and decoded with
\* their ids.
C16_Witness ==
  /\ RoundTripDone
  /\ Len(call.events) = 2
  /\ call.events[1].id = IdE1
  /\ call.events[2].id = IdE2
  /\ Len(ret.events) = 2
  /\ ret.events[1].id = IdE1
  /\ ret.events[2].id = IdE2

\* The beginnings of the lines exportToICS writes.
ExportLinePrefixes ==
  {<<"B", "E", "G", "I", "N", ":">>, <<"E", "N", "D", ":">>, sVersion, sProdId,
   sCalScale, sMethod, sUid, sDtStamp, sDtStart, sDtEnd, sSummary,
   sDescription, sLocation, sRRule}

\* C18: CRLF is the only line separator of the exported text: every LF is
\* preceded by CR, and a newline inside a title, a description or a location
\* never breaks a line (every physical line begins a property or a
\* BEGIN/END), it is written as backslash-n.
C18_CrlfOnly ==
  Exported =>
     LET text == frame.ics
     IN  /\ \A i \in 1..Len(text) : text[i] = LF => (i > 1 /\ text[i - 1] = CR)
         /\ \A l \in {SplitLines(text)[i] : i \in 1..Len(SplitLines(text))} :
               \E p \in ExportLinePrefixes : startsWith(l, p)
         /\ \A k \in 1..Len(LiveEvents(call.events)) :
               LET e == LiveEvents(call.events)[k]
               IN  includes(e.title, <<LF>>) =>
                      \E i \in 1..(Len(text) - 1) : text[i] = BS /\ text[i + 1] = "n"

\* C18 witness: an event with a newline in its title, its description and
\* its location has been exported.
C18_Witness ==
  /\ Exported
  /\ Len(call.events) = 1
  /\ includes(call.events[1].title, <<LF>>)
  /\ includes(call.events[1].description, <<LF>>)
  /\ call.events[1].location # None
  /\ includes(call.events[1].location[1], <<LF>>)
  /\ \E i \in 1..(Len(frame.ics) - 1) : frame.ics[i] = BS /\ frame.ics[i + 1] = "n"

\* C19: a date-time payload with a trailing Z decodes to the same instant as
\* the payload without it, read as local time, and both the 8-digit form
\* and the T-separated form are parsed.
C19_TrailingZIgnored ==
  DecodeDone =>
     LET complete == CompleteBlocks(call.blocks)
     IN  /\ Len(ret.events) = Len(complete)
         /\ \A k \in 1..Len(complete) :
               /\ ret.events[k].start = DateValue(complete[k].dtstart, 9)
               /\ ret.events[k].end = DateValue(complete[k].dtend, 10)

\* C19 witness: a DTSTART with a trailing Z and a date-only DTEND are
\* decoded to 09:30:15 and to midnight of the same day.
C19_Witness ==
  /\ DecodeDone
  /\ Len(call.blocks) = 1
  /\ call.blocks[1].dtstart = "timedZ"
  /\ call.blocks[1].dtend = "date8"
  /\ Len(ret.events) = 1
  /\ ret.events[1].start = MkDate(Day0, 9 * 3600 + 30 * 60 + 15)
  /\ ret.events[1].end = MkDate(Day0, 0)

(***************************************************************************)
(* Further properties of the expander.                                     *)
(***************************************************************************)
MaxPeriods == 400

\* The start of the k-th instance of a daily or weekly event.
KthStart(event, k) ==
  IF event.recurrence = "daily" THEN addDays(event.start, k)
  ELSE addDays(event.start, 7 * k)

\* C21: for a daily or weekly event and any range, the result holds an
\* occurrence for every k >= 0 whose k-th instance start lies inside the
\* range and before recurrenceEnd (rangeEnd + 1 year when unset), however
\* many periods separate the original start from the range.
C21_ExpansionComplete ==
  (ExpandDone /\ call.event.recurrence \in {"daily", "weekly"}) =>
     LET limit == IF call.event.recurrenceEnd # None
                  THEN call.event.recurrenceEnd[1]
                  ELSE addYears(call.rangeEnd, 1)
     IN  \A k \in 0..MaxPeriods :
            LET s == KthStart(call.event, k)
            IN  (/\ ~StrictlyEarlier(s, call.rangeStart)
                 /\ StrictlyEarlier(s, call.rangeEnd)
                 /\ StrictlyEarlier(s, limit))
                  => \E i \in 1..Len(ret.instances) : ret.instances[i].start = s

\* C22: every occurrence emitted by expandRecurringEvent has the fields of
\* the base event and equals it in every field except id, start and end;
\* the event passed to the call is the one it was called with.
C22_OccurrenceKeepsOtherFields ==
  ExpandDone =>
     \A i \in 1..Len(ret.instances) :
        /\ DOMAIN ret.instances[i] = DOMAIN call.event
        /\ \A f \in DOMAIN call.event \ {"id", "start", "end"} :
              ret.instances[i][f] = call.event[f]

\* C22 witness: a deleted weekly event with a recurrenceEnd has been
\* expanded to at least one occurrence with another id.
C22_Witness ==
  /\ ExpandDone
  /\ call.event.recurrence = "weekly"
  /\ call.event.recurrenceEnd # None
  /\ call.event.isDeleted
  /\ Len(ret.instances) >= 1
  /\ ret.instances[1].id # call.event.id

(***************************************************************************)
(* Properties of the day and agenda lists.                                 *)
(***************************************************************************)
\* A list ordered by (allDay descending, start ascending).
OrderedAllDayFirst(es) ==
  \A i, j \in 1..Len(es) :
     i < j =>
        /\ ~(~es[i].allDay /\ es[j].allDay)
        /\ (es[i].allDay = es[j].allDay) => ~StrictlyEarlier(es[j].start, es[i].start)

\* C23: the list returned by getEventsForDay and every group returned by
\* groupEventsByDate are ordered by (allDay descending, start ascending):
\* no timed event precedes an all-day event, and within each of the two
\* classes starts are non-decreasing.
C23_DayListsOrdered ==
  /\ DayDone => OrderedAllDayFirst(ret.events)
  /\ AgendaDone =>
        \A g \in 1..Len(ret.groups) : OrderedAllDayFirst(ret.groups[g].events)

\* C24: getEventsForDay returns no deleted event and no event of a calendar
\* that is not visible, and it returns every listed event without
\* recurrence that is not deleted, is visible, starts on an earlier day and
\* ends on or after the given day.
C24_DayViewExact ==
  DayDone =>
     /\ \A i \in 1..Len(ret.events) :
           /\ ~ret.events[i].isDeleted
           /\ ret.events[i].calendarId \in call.visibleCalendarIds
     /\ \A j \in 1..Len(call.events) :
           LET e == call.events[j]
           IN  (/\ ~e.isDeleted
                /\ e.calendarId \in call.visibleCalendarIds
                /\ e.recurrence = "none"
                /\ e.start.day < call.date.day
                /\ e.end.day >= call.date.day)
                 => \E i \in 1..Len(ret.events) : ret.events[i] = e

(***************************************************************************)
(* Properties of the decoder on files of several blocks and on nested      *)
(* components.                                                             *)
(***************************************************************************)
\* C25: each BEGIN:VEVENT starts a fresh record: the event decoded from the
\* second block has its own title, start and end, the defaults (recurrence
\* 'none', allDay false, isDeleted false, type 'event', empty description,
\* no location) and a fresh id, whatever the first block held, whether it
\* was returned, dropped or left open; property lines and END:VEVENT lines
\* outside an open block change nothing.
C25_BlocksIsolated ==
  IsolateDone =>
     /\ ~ret.threw
     /\ Len(ret.events) \in 1..2
     /\ LET e == ret.events[Len(ret.events)]
        IN  /\ e.title = <<"a", "b", "c">>
            /\ e.start = MkDate(Day0, 9 * 3600 + 30 * 60 + 15)
            /\ e.end = MkDate(Day0, 10 * 3600 + 30 * 60 + 15)
            /\ e.description = <<>>
            /\ e.location = None
            /\ e.recurrence = "none"
            /\ ~e.allDay
            /\ ~e.isDeleted
            /\ e.type = "event"
            /\ e.id = RandomUUID(IF call.first = "absent" THEN 1 ELSE 2)
     /\ (call.first = "withoutSummary" /\ call.strayAfter) => Len(ret.events) = 1

\* C25 witness: a first block left open, then property lines, then the
\* second block: only the second block's event is returned.
C25_Witness ==
  /\ IsolateDone
  /\ call.first = "unterminated"
  /\ ~call.strayAfter
  /\ Len(call.stray) = 2
  /\ sEndVEvent \notin {call.stray[i] : i \in 1..Len(call.stray)}
  /\ Len(ret.events) = 1
  /\ ret.events[1].recurrence = "none"

\* C27: lines of a sub-component nested in an open VEVENT (between
\* BEGIN:VALARM and END:VALARM) do not change the title, description,
\* location, start or end of the enclosing event.
C27_NestedComponentIgnored ==
  NestedDone =>
     /\ ~ret.threw
     /\ Len(ret.events) = 1
     /\ ret.events[1].title = <<"a", "b", "c">>
     /\ ret.events[1].description = (IF call.described THEN <<"d", "d">> ELSE <<>>)
     /\ ret.events[1].location = None
     /\ ret.events[1].start = MkDate(Day0, 9 * 3600 + 30 * 60 + 15)
     /\ ret.events[1].end = MkDate(Day0, 10 * 3600 + 30 * 60 + 15)

\* C26: every occurrence of a monthly event that starts on day d of a month
\* falls on day min(d, number of days of its month): an event starting on
\* January 31 occurs on the last day of February and on March 31.
C26_MonthlyKeepsDayOfMonth ==
  (ExpandDone /\ call.event.recurrence = "monthly") =>
     \A i \in 1..Len(ret.instances) :
        LET c == CivilFromDays(ret.instances[i].start.day)
            d == CivilFromDays(call.event.start.day).d
            last == DaysInMonth(c.y, c.m)
        IN  c.d = (IF d < last THEN d ELSE last)

(***************************************************************************)
(* The event store: useEvents keeps the list shown by the application and  *)
(* writes every change to the events table through eventService.  A        *)
(* handler changes the list, issues the write and is suspended at its      *)
(* await; it resumes after the cloud has answered.                         *)
(***************************************************************************)
MaxStoreEvents == 2
MaxAwaiting == 1

StoreIds == {IdE1, IdE2}
StoreTitles == {<<"a">>, <<"b">>}

\* calendars.find(c => c.isDefault) || calendars[0] (SettingsModal 259).
DefaultCalendarId == CalC1

\* The events the event form can hand to addEvent.
StoreEvent(id, title) == [BaseEvent EXCEPT !.id = id, !.title = title]

IdsOf(es) == {es[i].id : i \in 1..Len(es)}

\* prev.filter(e => e.id !== id)
FilterOutId(es, id) ==
  LET Keep(e) == e.id # id IN SelectSeq(es, Keep)

\* prev.map(e => e.id === event.id ? event : e)
ReplaceById(es, event) ==
  [i \in 1..Len(es) |-> IF es[i].id = event.id THEN event ELSE es[i]]

\* prev.map(e => e.id === id ? { ...e, isDeleted: flag } : e)
SetDeleted(es, id, flag) ==
  [i \in 1..Len(es) |-> IF es[i].id = id
                        THEN [es[i] EXCEPT !.isDeleted = flag] ELSE es[i]]

\* events.find(e => e.id === id): the first match, or undefined.
FindById(es, id) ==
  IF id \in IdsOf(es)
  THEN Some(es[CHOOSE i \in 1..Len(es) :
                  es[i].id = id /\ \A j \in 1..(i - 1) : es[j].id # id])
  ELSE None

\* The answers of the events table to a write: the written row ("data"),
\* an error object ("error"), or a rejected promise ("rejected").  event_id
\* is UNIQUE, and update(...).single() needs one matching row.
Responses(table, p) ==
  {"error", "rejected"}
  \cup (CASE p.op = "addEvent" ->
               IF p.event.id \in {r.id : r \in table} THEN {} ELSE {"data"}
          [] p.op = "updateEvent" ->
               IF p.event.id \in {r.id : r \in table} THEN {"data"} ELSE {}
          [] OTHER -> {"data"})

\* The table after the write of handler p has been carried out.
Written(table, p) ==
  CASE p.op = "addEvent" -> table \cup {p.event}
    [] p.op = "updateEvent" ->
         {IF r.id = p.event.id THEN p.event ELSE r : r \in table}
    [] p.op = "softDeleteEvent" ->
         {IF r.id = p.event.id THEN [r EXCEPT !.isDeleted = TRUE] ELSE r : r \in table}
    [] p.op = "deleteEvent" -> {r \in table : r.id # p.event.id}
    [] p.op = "restoreEvent" ->
         {IF r.id = p.event.id THEN [r EXCEPT !.isDeleted = FALSE] ELSE r : r \in table}

\* The functions of eventService as seen by their caller: each one wraps
\* the request in try/catch, returns null (false) on an error object and on
\* an exception alike, and never throws.
ServiceResult(op, response) ==
  [value |-> IF op \in {"addEvent", "updateEvent"}
             THEN (IF response = "data" THEN "event" ELSE "null")
             ELSE (IF response = "data" THEN "true" ELSE "false"),
   threw |-> FALSE]

\* The catch blocks of the handlers of useEvents.
CatchBlock(p, es) ==
  CASE p.op = "addEvent" -> FilterOutId(es, p.event.id)
    [] p.op = "updateEvent" ->
         IF p.previousEvent # None
         THEN ReplaceById(es, p.previousEvent[1])
         ELSE es
    [] OTHER -> es

Suspended(op, event, previousEvent) ==
  [op |-> op, event |-> event, previousEvent |-> previousEvent,
   response |-> "none"]

RemoveAt(s, i) == SubSeq(s, 1, i - 1) \o SubSeq(s, i + 1, Len(s))

\* The events fetched on mount.
InitialLists == {<<>>, <<StoreEvent(IdE1, <<"a">>)>>}

InitStore ==
  /\ pc = "app"
  /\ call = Idle /\ frame = Idle /\ ret = Idle
  /\ localEvents \in InitialLists
  /\ cloudRows = {localEvents[i] : i \in 1..Len(localEvents)}
  /\ awaiting = <<>>
  /\ NotifyIdle

\* useEvents.addEvent up to its await; the id comes from
\* crypto.randomUUID() and is new.
addEvent(event) ==
  /\ pc = "app"
  /\ Len(localEvents) < MaxStoreEvents /\ Len(awaiting) < MaxAwaiting
  /\ event.id \notin IdsOf(localEvents) \cup {r.id : r \in cloudRows}
                     \cup {awaiting[i].event.id : i \in 1..Len(awaiting)}
  /\ localEvents' = Append(localEvents, event)
  /\ awaiting' = Append(awaiting, Suspended("addEvent", event, None))
  /\ UNCHANGED <<cloudRows, callVars, notifyVars>>

\* useEvents.updateEvent up to its await.
updateEvent(event) ==
  /\ pc = "app"
  /\ Len(awaiting) < MaxAwaiting
  /\ event.id \in IdsOf(localEvents)
  /\ FindById(localEvents, event.id)[1].title # event.title
  /\ localEvents' = ReplaceById(localEvents, event)
  /\ awaiting' = Append(awaiting,
                        Suspended("updateEvent", event,
                                  FindById(localEvents, event.id)))
  /\ UNCHANGED <<cloudRows, callVars, notifyVars>>

\* useEvents.deleteEvent up to its await.
deleteEvent(id, permanent) ==
  /\ pc = "app"
  /\ Len(awaiting) < MaxAwaiting
  /\ id \in IdsOf(localEvents)
  /\ localEvents' = IF permanent THEN FilterOutId(localEvents, id)
                    ELSE SetDeleted(localEvents, id, TRUE)
  /\ awaiting' = Append(awaiting,
                        Suspended(IF permanent THEN "deleteEvent"
                                  ELSE "softDeleteEvent",
                                  [id |-> id], None))
  /\ UNCHANGED <<cloudRows, callVars, notifyVars>>

\* useEvents.restoreEvent up to its await.
restoreEvent(id) ==
  /\ pc = "app"
  /\ Len(awaiting) < MaxAwaiting
  /\ \E i \in 1..Len(localEvents) :
        localEvents[i].id = id /\ localEvents[i].isDeleted
  /\ localEvents' = SetDeleted(localEvents, id, FALSE)
  /\ awaiting' = Append(awaiting, Suspended("restoreEvent", [id |-> id], None))
  /\ UNCHANGED <<cloudRows, callVars, notifyVars>>

\* The events table answers the request of the i-th suspended handler.
CloudResponds(i, response) ==
  /\ pc = "app"
  /\ i \in 1..Len(awaiting)
  /\ awaiting[i].response = "none"
  /\ response \in Responses(cloudRows, awaiting[i])
  /\ cloudRows' = IF response = "data" THEN Written(cloudRows, awaiting[i])
                  ELSE cloudRows
  /\ awaiting' = [awaiting EXCEPT ![i].response = response]
  /\ UNCHANGED <<localEvents, callVars, notifyVars>>

\* The i-th handler continues after its await: the catch block runs when
\* the service call threw.
HandlerResumes(i) ==
  /\ pc = "app"
  /\ i \in 1..Len(awaiting)
  /\ awaiting[i].response # "none"
  /\ localEvents' =
       IF ServiceResult(awaiting[i].op, awaiting[i].response).threw
       THEN CatchBlock(awaiting[i], localEvents)
       ELSE localEvents
  /\ awaiting' = RemoveAt(awaiting, i)
  /\ UNCHANGED <<cloudRows, callVars, notifyVars>>

\* handleExport (242-245): the file holds the events that are not deleted.
ActiveEvents(es) ==
  LET Active(e) == ~e.isDeleted IN SelectSeq(es, Active)

\* handleImport (247-267) on a file that handleExport wrote from the
\* current list.
handleImport(now) ==
  /\ pc = "app"
  /\ Len(localEvents) + Len(ActiveEvents(localEvents)) <= MaxStoreEvents
  /\ \E importedEvents \in
         {importFromICS(exportToICS(ActiveEvents(localEvents), now),
                        DefaultCalendarId, now)} :
        /\ ~importedEvents.threw
        /\ Len(localEvents) + Len(importedEvents.events) <= MaxStoreEvents
        /\ localEvents' = localEvents \o importedEvents.events
  /\ UNCHANGED <<cloudRows, awaiting, callVars, notifyVars>>

NextStore ==
  \/ \E id \in StoreIds, title \in StoreTitles : addEvent(StoreEvent(id, title))
  \/ \E i \in 1..Len(localEvents), title \in StoreTitles :
        updateEvent([localEvents[i] EXCEPT !.title = title])
  \/ \E id \in StoreIds, permanent \in BOOLEAN : deleteEvent(id, permanent)
  \/ \E id \in StoreIds : restoreEvent(id)
  \/ \E i \in 1..MaxAwaiting, response \in {"data", "error", "rejected"} :
        CloudResponds(i, response)
  \/ \E i \in 1..MaxAwaiting : HandlerResumes(i)
  \/ handleImport(IcsNow)

SpecStore == InitStore /\ [][NextStore]_vars

\* A resumed continuation is run by the event loop.
SpecStoreLive ==
  SpecStore /\ WF_vars(\E i \in 1..MaxAwaiting : HandlerResumes(i))

\* C28: the application's event list never holds two events with the
\* same id, whatever handlers and imports have run.
C28_IdsUnique ==
  (pc = "app") =>
     \A i, j \in 1..Len(localEvents) :
        i # j => localEvents[i].id # localEvents[j].id

AddFailed(id) ==
  \E i \in 1..Len(awaiting) :
     /\ awaiting[i].op = "addEvent" /\ awaiting[i].event.id = id
     /\ awaiting[i].response \in {"error", "rejected"}

UpdateFailed(event) ==
  \E i \in 1..Len(awaiting) :
     /\ awaiting[i].op = "updateEvent" /\ awaiting[i].event = event
     /\ awaiting[i].response \in {"error", "rejected"}

Holds(es, event) == \E i \in 1..Len(es) : es[i] = event

\* C29: after the cloud write of addEvent has failed the added event leaves
\* the list, and after the cloud write of updateEvent has failed the list
\* no longer holds the rejected value.
C29_FailedWriteReverted ==
  /\ \A id \in StoreIds : AddFailed(id) ~> (id \notin IdsOf(localEvents))
  /\ \A id \in StoreIds, title \in StoreTitles :
        UpdateFailed(StoreEvent(id, title))
           ~> ~Holds(localEvents, StoreEvent(id, title))

(***************************************************************************)
(* The notification service: startNotificationService runs                 *)
(* checkAndSendNotifications at once and then every                        *)
(* NOTIFICATION_CHECK_INTERVAL milliseconds.  A check runs without          *)
(* interruption until it awaits an email send; it resumes when the send     *)
(* has settled.  Times are milliseconds counted from 2024-03-10T00:00.      *)
(***************************************************************************)
NOTIFICATION_CHECK_INTERVAL == 60000
SentKept == 1000
MaxChecks == 3

\* new Date(event.start).getTime()
GetTime(d) == (d.day - Day0) * 86400000 + d.sec * 1000

getNotificationMs(time, unit) ==
  time * (CASE unit = "minutes" -> 60 * 1000
            [] unit = "hours" -> 60 * 60 * 1000
            [] unit = "days" -> 24 * 60 * 60 * 1000
            [] unit = "weeks" -> 7 * 24 * 60 * 60 * 1000)

\* `${event.id}-${notification.id}` (133).
NotificationKey(event, notification) ==
  event.id \o <<"-">> \o notification.id

\* getSentNotifications (31-38): the stored array as a set.
getSentNotifications(stored) == {stored[i] : i \in 1..Len(stored)}

\* markNotificationSent (40-46): the stored array after the call.
markNotificationSent(stored, notificationKey) ==
  LET arr == IF notificationKey \in getSentNotifications(stored)
             THEN stored ELSE Append(stored, notificationKey)
  IN  IF Len(arr) > SentKept
      THEN SubSeq(arr, Len(arr) - SentKept + 1, Len(arr)) ELSE arr

\* The test of line 142.
IsDue(event, notification, now) ==
  LET triggerTime == GetTime(event.start)
                       - getNotificationMs(notification.time, notification.unit)
      timeDiff == triggerTime - now
  IN  timeDiff <= NOTIFICATION_CHECK_INTERVAL
      /\ timeDiff > -NOTIFICATION_CHECK_INTERVAL

\* The pairs visited by the two nested loops (127-132), in order.
RECURSIVE LoopPairs(_, _)
LoopPairs(es, i) ==
  IF i > Len(es) THEN <<>>
  ELSE (IF es[i].isDeleted \/ Len(es[i].notifications) = 0 THEN <<>>
        ELSE [j \in 1..Len(es[i].notifications) |->
                [event |-> es[i], notification |-> es[i].notifications[j]]])
       \o LoopPairs(es, i + 1)

\* The loops from pair i on, until the check awaits an email send or
\* returns; st holds the check (now, the set read at line 125, its
\* position), the stored array and the reminders delivered.
RECURSIVE RunCheck(_, _, _)
RunCheck(st, i, in) ==
  LET pairs == LoopPairs(in.events, 1)
  IN  IF i > Len(pairs) THEN [st EXCEPT !.at = 0]
      ELSE LET event == pairs[i].event
               notification == pairs[i].notification
               notificationKey == NotificationKey(event, notification)
           IN  IF notificationKey \in st.sentNotifications
               THEN RunCheck(st, i + 1, in)
               ELSE IF ~IsDue(event, notification, st.now)
               THEN RunCheck(st, i + 1, in)
               ELSE IF notification.type = "email" /\ in.notificationEmail # None
               THEN [st EXCEPT !.at = i]
               ELSE IF notification.type = "push" /\ in.pushGranted
               THEN RunCheck([st EXCEPT
                                !.delivered = Append(@, notificationKey),
                                !.stored = markNotificationSent(@, notificationKey)],
                             i + 1, in)
               ELSE RunCheck(st, i + 1, in)

\* The part of a check that is kept while it is suspended.
CheckOf(st) == [now |-> st.now, sentNotifications |-> st.sentNotifications,
                at |-> st.at]

\* The events with reminders, 15 and 14 minutes before 09:00.
NotificationPool ==
  {[id |-> <<"n", "1">>, type |-> "email", time |-> 15, unit |-> "minutes"],
   [id |-> <<"n", "2">>, type |-> "push", time |-> 15, unit |-> "minutes"],
   [id |-> <<"n", "3">>, type |-> "email", time |-> 14, unit |-> "minutes"]}

NotifyEvents ==
  {[id |-> IdE1, title |-> <<"a">>, start |-> BaseEvent.start,
    isDeleted |-> del, notifications |-> ns] :
     del \in BOOLEAN,
     ns \in {<<>>} \cup {<<n>> : n \in NotificationPool}
            \cup {<<x[1], x[2]>> :
                    x \in {y \in NotificationPool \X NotificationPool :
                              y[1] # y[2]}}}

\* The first check runs between two minutes and half a minute before the
\* first reminder is due.
FirstCheckTimes ==
  {GetTime(BaseEvent.start) - 15 * 60000 - d : d \in {120000, 90000, 60000, 30000}}

NotifyCalls ==
  {[op |-> "notify", events |-> <<e>>, notificationEmail |-> em,
    pushGranted |-> pg, start |-> t] :
     e \in NotifyEvents, em \in {None, Some(<<"u", "@", "x">>)},
     pg \in BOOLEAN, t \in FirstCheckTimes}

InitNotify ==
  /\ pc = "service"
  /\ call \in NotifyCalls
  /\ frame = Idle /\ ret = Idle
  /\ StoreIdle
  /\ clock = call.start
  /\ sentStore = <<>>
  /\ checks = <<>>
  /\ delivered = <<>>

\* The initial check (184) and the checks of setInterval (179-181): a
\* check starts at the time of the clock and runs to its first await.
TimerFires ==
  /\ pc = "service"
  /\ clock < call.start + MaxChecks * NOTIFICATION_CHECK_INTERVAL
  /\ \E st \in {RunCheck([now |-> clock,
                          sentNotifications |-> getSentNotifications(sentStore),
                          at |-> 0, stored |-> sentStore,
                          delivered |-> delivered], 1, call)} :
        /\ sentStore' = st.stored
        /\ delivered' = st.delivered
        /\ checks' = IF st.at = 0 THEN checks ELSE Append(checks, CheckOf(st))
  /\ clock' = clock + NOTIFICATION_CHECK_INTERVAL
  /\ UNCHANGED <<callVars, storeVars>>

\* sendEmailNotification settles for the c-th suspended check (146-161):
\* sent tells whether the reminder was sent; the check then goes on.
EmailSettles(c, sent) ==
  /\ pc = "service"
  /\ c \in 1..Len(checks)
  /\ LET pair == LoopPairs(call.events, 1)[checks[c].at]
         notificationKey == NotificationKey(pair.event, pair.notification)
     IN  \E st \in {RunCheck([now |-> checks[c].now,
                             sentNotifications |-> checks[c].sentNotifications,
                             at |-> 0,
                             stored |-> IF sent
                                        THEN markNotificationSent(sentStore, notificationKey)
                                        ELSE sentStore,
                             delivered |-> IF sent
                                           THEN Append(delivered, notificationKey)
                                           ELSE delivered],
                            checks[c].at + 1, call)} :
            /\ sentStore' = st.stored
            /\ delivered' = st.delivered
            /\ checks' = IF st.at = 0 THEN RemoveAt(checks, c)
                         ELSE [checks EXCEPT ![c] = CheckOf(st)]
  /\ UNCHANGED <<clock, callVars, storeVars>>

NextNotify ==
  \/ TimerFires
  \/ \E c \in 1..MaxChecks, sent \in BOOLEAN : EmailSettles(c, sent)

SpecNotify == InitNotify /\ [][NextNotify]_vars

\* C30: every reminder key is delivered at most once, however the checks
\* and the email sends interleave.
C30_DeliveredAtMostOnce ==
  (pc = "service") =>
     \A i, j \in 1..Len(delivered) : i # j => delivered[i] # delivered[j]

====
